---- MODULE Spec2Model ----
(***************************************************************************)
(* A model of the text transforms of arxiv_latex_cleaner.py.                *)
(* A text is a sequence of one-character strings; offsets are 1-based, so  *)
(* a Python span (start, end) is the pair s = start + 1, e = end + 1 and    *)
(* covers the characters s .. e - 1.                                       *)
(***************************************************************************)
EXTENDS Integers, Sequences, FiniteSets, TLC

VARIABLES
  pc,                  \* which function runs and where it stands
  text,                \* _simplify_conditional_blocks: the input text
  matches,             \* the tokens p.finditer(text) yields
  m,                   \* index in matches of the next token of the loop
  nodes,               \* the dicts of the tree; nodes[1] is toplevel_tree
  tree,                \* the current node (the variable `tree`)
  positions_to_delete, \* the spans traverse_tree collected
  kept,                \* the offsets of text that the returned text holds
  outcome,             \* how the call ended, and the warning it printed
  contents,            \* _keep_only_referenced_tex: file name -> list of lines
  splits,              \* its tex_in_root, tex_not_in_root and tex_to_copy
  old_referenced,      \* the set the current pass reads
  referenced,          \* the set the last pass computed
  command,             \* _remove_command: the command name
  keep_text,           \* its keep_text argument
  cmd_in,              \* the text it was called with
  cmd_text,            \* its variable `text`
  cmd_prev,            \* the text the last pass searched
  all_substitutions,   \* the substitutions of the last pass
  filename,            \* _search_reference: the file name
  ref_contents,        \* the text it searches
  strict,              \* its strict argument
  found,               \* whether it returned a match object
  line,                \* _remove_comments_inline: the line it is given
  once,                \* its result
  twice,               \* its result on that result
  if_exceptions,       \* _simplify_conditional_blocks: its if_exceptions
  environment,         \* _remove_environment: the environment name
  env_in,              \* the text it was called with
  env_out,             \* the text it returned
  parameters,          \* _remove_comments_and_commands_to_delete: parameters
  pipe_in,             \* the lines it was called with
  content              \* its variable `content`

condVars ==
  <<text, matches, m, nodes, tree, positions_to_delete, kept, outcome,
    if_exceptions>>

texVars == <<contents, splits, old_referenced, referenced>>

cmdVars == <<command, keep_text, cmd_in, cmd_text, cmd_prev, all_substitutions>>

refVars == <<filename, ref_contents, strict, found>>

comVars == <<line, once, twice>>

envVars == <<environment, env_in, env_out>>

pipeVars == <<parameters, pipe_in, content>>

vars ==
  <<pc, condVars, texVars, cmdVars, refVars, comVars, envVars, pipeVars>>

-----------------------------------------------------------------------------
(* Characters and texts *)

Backslash == "\\"
Newline == "\n"
Tab == "\t"

Letters ==
  {"a", "b", "c", "d", "e", "f", "g", "h", "i", "j", "k", "l", "m", "n", "o",
   "p", "q", "r", "s", "t", "u", "v", "w", "x", "y", "z",
   "A", "B", "C", "D", "E", "F", "G", "H", "I", "J", "K", "L", "M", "N", "O",
   "P", "Q", "R", "S", "T", "U", "V", "W", "X", "Y", "Z"}

Digits == {"0", "1", "2", "3", "4", "5", "6", "7", "8", "9"}

\* the regex class \w
IsWord(c) == c \in Letters \cup Digits \cup {"_"}

\* the regex class \s, and str.isspace() of one character
IsSpace(c) == c \in {" ", Newline, Tab}

RECURSIVE Flatten(_)
Flatten(ss) == IF ss = <<>> THEN <<>> ELSE Head(ss) \o Flatten(Tail(ss))

\* text[a : b] of Python with a = s - 1, b = e - 1
Slice(t, s, e) == IF e <= s THEN <<>> ELSE SubSeq(t, s, e - 1)

\* the literal lit stands in t at offset i
LitAt(t, i, lit) ==
  /\ i >= 1
  /\ i + Len(lit) - 1 <= Len(t)
  /\ \A k \in 1..Len(lit) : t[i + k - 1] = lit[k]

\* the offset after the longest run of whitespace (\s*) from i
RECURSIVE SpaceRunEnd(_, _)
SpaceRunEnd(t, i) ==
  IF i <= Len(t) /\ IsSpace(t[i]) THEN SpaceRunEnd(t, i + 1) ELSE i

\* the offset after the longest run of word characters (\w*) from i
RECURSIVE WordRunEnd(_, _)
WordRunEnd(t, i) ==
  IF i <= Len(t) /\ IsWord(t[i]) THEN WordRunEnd(t, i + 1) ELSE i

\* the characters of t at the offsets ks
Pick(t, ks) == [k \in 1..Len(ks) |-> t[ks[k]]]

\* str.replace(c, ''): t without its characters c
RECURSIVE Remove(_, _)
Remove(t, c) ==
  IF t = <<>> THEN <<>>
  ELSE IF Head(t) = c THEN Remove(Tail(t), c)
  ELSE <<Head(t)>> \o Remove(Tail(t), c)

Min(a, b) == IF a <= b THEN a ELSE b

Max(a, b) == IF a >= b THEN a ELSE b

L_if == <<Backslash, "i", "f">>
L_else == <<Backslash, "e", "l", "s", "e">>
L_fi == <<Backslash, "f", "i">>
L_newif == <<Backslash, "n", "e", "w", "i", "f">>
L_iffalse == <<Backslash, "i", "f", "f", "a", "l", "s", "e">>
L_if0 == <<Backslash, "i", "f", "0">>
L_iftrue == <<Backslash, "i", "f", "t", "r", "u", "e">>
L_if1 == <<Backslash, "i", "f", "1">>
L_ifvar == <<Backslash, "i", "f", "v", "a", "r">>
L_iff == <<Backslash, "i", "f", "f">>

-----------------------------------------------------------------------------
(* _simplify_conditional_blocks: the tokenizer *)

\* (?<=\\newif\s*) at offset i: \newif and then only whitespace end at i
AfterNewif(t, i) ==
  \E j \in 1..i : /\ LitAt(t, j, L_newif)
                  /\ j + Len(L_newif) <= i
                  /\ \A k \in (j + Len(L_newif))..(i - 1) : IsSpace(t[k])

\* a pattern without the test for \newif
TokenAtNoNewif(t, i) ==
  LET sp == SpaceRunEnd(t, i + 3)
      we == WordRunEnd(t, sp)
  IN IF LitAt(t, i, L_if) /\ we > sp
       THEN [s |-> i, e |-> we, group |-> Slice(t, i, we)]
     ELSE IF LitAt(t, i, L_else) /\ ~(i + 5 <= Len(t) /\ IsWord(t[i + 5]))
       THEN [s |-> i, e |-> i + 5, group |-> L_else]
     ELSE IF LitAt(t, i, L_fi) /\ ~(i + 3 <= Len(t) /\ IsWord(t[i + 3]))
       THEN [s |-> i, e |-> i + 3, group |-> L_fi]
     ELSE [s |-> i, e |-> 0, group |-> <<>>]

\* the match of the pattern p at offset i, e = 0 when there is none
TokenAt(t, i) ==
  LET sp == SpaceRunEnd(t, i + 3)
      we == WordRunEnd(t, sp)
  IN IF ~AfterNewif(t, i) /\ LitAt(t, i, L_if) /\ we > sp
       THEN [s |-> i, e |-> we, group |-> Slice(t, i, we)]
     ELSE IF LitAt(t, i, L_else) /\ ~(i + 5 <= Len(t) /\ IsWord(t[i + 5]))
       THEN [s |-> i, e |-> i + 5, group |-> L_else]
     ELSE IF LitAt(t, i, L_fi) /\ ~(i + 3 <= Len(t) /\ IsWord(t[i + 3]))
       THEN [s |-> i, e |-> i + 3, group |-> L_fi]
     ELSE [s |-> i, e |-> 0, group |-> <<>>]

\* p.finditer(text): leftmost matches, each search starting where the last ended
RECURSIVE FindIter(_, _)
FindIter(t, i) ==
  IF i > Len(t) THEN <<>>
  ELSE LET tok == TokenAt(t, i)
       IN IF tok.e # 0 THEN <<tok>> \o FindIter(t, tok.e)
          ELSE FindIter(t, i + 1)

\* a token text that keeps its spaces
NoSpaceNothing(tok) == tok.group

\* m.group().replace(' ', '')
NoSpace(tok) == Remove(tok.group, " ")

\* the names of the exception list that the texts of CondChunks can spell
exceptions == {Tail(L_iff)}

StartsWithIf(g) == Len(g) >= 3 /\ SubSeq(g, 1, 3) = L_if

-----------------------------------------------------------------------------
(* _simplify_conditional_blocks: the tree *)

\* a dict of the tree; start, else, end are indexes in matches, 0 when the
\* key is absent; parent is 0 for None
new_subtree(kind) ==
  [kind |-> kind, left |-> <<>>, right |-> <<>>, start |-> 0, else |-> 0,
   end |-> 0, parent |-> 0]

toplevel_tree == new_subtree("toplevel")

\* an add_subtree that never looks for the 'else' key
add_subtreeAlwaysLeft(ns, cur, kind, tokIdx) ==
  LET id == Len(ns) + 1
      sub == [new_subtree(kind) EXCEPT !.start = tokIdx, !.parent = cur]
  IN Append([ns EXCEPT ![cur].left = Append(@, id)], sub)

\* add_subtree(tree, subtree), subtree['start'] = m and tree = subtree
add_subtree(ns, cur, kind, tokIdx) ==
  LET id == Len(ns) + 1
      sub == [new_subtree(kind) EXCEPT !.start = tokIdx, !.parent = cur]
      par == IF ns[cur].else = 0
               THEN [ns[cur] EXCEPT !.left = Append(@, id)]
               ELSE [ns[cur] EXCEPT !.right = Append(@, id)]
  IN Append([ns EXCEPT ![cur] = par], sub)

\* print_tree: the call for a subtree of tree['right'] passes no `write`,
\* which raises TypeError before anything of that subtree is printed
RECURSIVE print_tree_raises(_, _)
print_tree_raises(ns, n) ==
  \/ \E k \in 1..Len(ns[n].left) : print_tree_raises(ns, ns[n].left[k])
  \/ ns[n].right # <<>>

\* print_abort(error_finding) followed by `return text`
Abort(ns, finding) ==
  IF print_tree_raises(ns, 1)
    THEN [kind |-> "TypeError", warning |-> finding]
    ELSE [kind |-> "returned", warning |-> finding]


\* traverse_tree(tree): the spans appended to positions_to_delete, in order
RECURSIVE traverse_tree(_, _, _)
RECURSIVE traverse_all(_, _, _)
traverse_all(ns, ms, ids) ==
  IF ids = <<>> THEN <<>>
  ELSE traverse_tree(ns, ms, Head(ids)) \o traverse_all(ns, ms, Tail(ids))

\* a traversal that deletes of a false conditional without \else its two
\* tokens only
traverse_treeTokensOnly(ns, ms, n) ==
  LET t == ns[n] IN
  IF t.kind = "iffalse" THEN
    IF t.else # 0
      THEN <<[s |-> ms[t.start].s, e |-> ms[t.else].e]>>
           \o traverse_all(ns, ms, t.right)
           \o <<[s |-> ms[t.end].s, e |-> ms[t.end].e]>>
      ELSE <<[s |-> ms[t.start].s, e |-> ms[t.start].e],
             [s |-> ms[t.end].s, e |-> ms[t.end].e]>>
  ELSE IF t.kind = "iftrue" THEN
    IF t.else # 0
      THEN <<[s |-> ms[t.start].s, e |-> ms[t.start].e]>>
           \o traverse_all(ns, ms, t.left)
           \o <<[s |-> ms[t.else].s, e |-> ms[t.end].e]>>
      ELSE <<[s |-> ms[t.start].s, e |-> ms[t.start].e],
             [s |-> ms[t.end].s, e |-> ms[t.end].e]>>
  ELSE traverse_all(ns, ms, t.left) \o traverse_all(ns, ms, t.right)

traverse_tree(ns, ms, n) ==
  LET t == ns[n] IN
  IF t.kind = "iffalse" THEN
    IF t.else # 0
      THEN <<[s |-> ms[t.start].s, e |-> ms[t.else].e]>>
           \o traverse_all(ns, ms, t.right)
           \o <<[s |-> ms[t.end].s, e |-> ms[t.end].e]>>
      ELSE <<[s |-> ms[t.start].s, e |-> ms[t.end].e]>>
  ELSE IF t.kind = "iftrue" THEN
    IF t.else # 0
      THEN <<[s |-> ms[t.start].s, e |-> ms[t.start].e]>>
           \o traverse_all(ns, ms, t.left)
           \o <<[s |-> ms[t.else].s, e |-> ms[t.end].e]>>
      ELSE <<[s |-> ms[t.start].s, e |-> ms[t.start].e],
             [s |-> ms[t.end].s, e |-> ms[t.end].e]>>
  ELSE traverse_all(ns, ms, t.left) \o traverse_all(ns, ms, t.right)

\* the loop over reversed(positions_to_delete): ks are the offsets of the
\* original text that make up the current text; text[end].isspace() reads the
\* current text
\* a loop over positions_to_delete in the order of collection
RECURSIVE DeleteSpansForward(_, _, _)
DeleteSpansForward(t, ks, spans) ==
  IF spans = <<>> THEN ks
  ELSE LET sp == Head(spans)
           end_to_del == IF sp.e <= Len(ks) /\ IsSpace(t[ks[sp.e]])
                           THEN sp.e + 1 ELSE sp.e
           cut == SubSeq(ks, 1, Min(sp.s - 1, Len(ks)))
                  \o SubSeq(ks, Min(Max(end_to_del, 1), Len(ks) + 1), Len(ks))
       IN DeleteSpansForward(t, cut, Tail(spans))

RECURSIVE DeleteSpans(_, _, _)
DeleteSpans(t, ks, spans) ==
  IF spans = <<>> THEN ks
  ELSE LET sp == spans[Len(spans)]
           end_to_del == IF sp.e <= Len(ks) /\ IsSpace(t[ks[sp.e]])
                           THEN sp.e + 1 ELSE sp.e
           cut == SubSeq(ks, 1, Min(sp.s - 1, Len(ks)))
                  \o SubSeq(ks, Max(end_to_del, 1), Len(ks))
       IN DeleteSpans(t, cut, SubSeq(spans, 1, Len(spans) - 1))

-----------------------------------------------------------------------------
(* _simplify_conditional_blocks: the call, one loop iteration per step *)

MaxChunks == 5

CondChunks ==
  {L_iffalse, L_iftrue, L_ifvar, L_else, L_fi, <<"a">>, <<" ">>}

SeqsUpTo(S, n) == UNION {[1..k -> S] : k \in 0..n}

\* the state of a function that is not running
CondIdle ==
  /\ text = <<>> /\ matches = <<>> /\ m = 0 /\ nodes = <<>> /\ tree = 0
  /\ positions_to_delete = <<>> /\ kept = <<>>
  /\ outcome = [kind |-> "idle", warning |-> ""]
  /\ if_exceptions = {}

TexIdle ==
  /\ contents = <<>> /\ splits = <<>> /\ old_referenced = {} /\ referenced = {}

CmdIdle ==
  /\ command = <<>> /\ keep_text = FALSE /\ cmd_in = <<>> /\ cmd_text = <<>>
  /\ cmd_prev = <<>> /\ all_substitutions = <<>>

RefIdle ==
  /\ filename = <<>> /\ ref_contents = <<>> /\ strict = FALSE /\ found = FALSE

ComIdle ==
  /\ line = <<>> /\ once = <<>> /\ twice = <<>>

EnvIdle ==
  /\ environment = <<>> /\ env_in = <<>> /\ env_out = <<>>

PipeIdle ==
  /\ parameters = <<>> /\ pipe_in = <<>> /\ content = <<>>

\* three conditionals, each nested in the one before
CondStarts == {L_iffalse, L_iftrue, L_ifvar}

NestedCondTexts ==
  {Flatten(<<s1, gap, s2, s3, body, L_fi, L_fi, gap, L_fi>>) :
     s1 \in CondStarts, s2 \in CondStarts, s3 \in CondStarts,
     body \in {<<>>, <<"a">>}, gap \in {<<>>, <<Newline>>}}

CondInit ==
  /\ pc = "cond" /\ TexIdle /\ CmdIdle /\ RefIdle /\ ComIdle
  /\ EnvIdle /\ PipeIdle
  /\ text \in {Flatten(cs) : cs \in SeqsUpTo(CondChunks, MaxChunks)}
            \cup NestedCondTexts
  /\ matches = FindIter(text, 1)
  /\ m = 1
  /\ nodes = <<toplevel_tree>>
  /\ tree = 1
  /\ positions_to_delete = <<>>
  /\ kept = <<>>
  /\ outcome = [kind |-> "running", warning |-> ""]
  /\ if_exceptions = {}

\* the branches of the loop body for a start token \if<word>
ScanStart ==
  /\ pc = "cond" /\ m <= Len(matches)
  /\ LET m_no_space == NoSpace(matches[m]) IN
     /\ StartsWithIf(m_no_space)
     /\ IF m_no_space = L_iffalse \/ m_no_space = L_if0
          THEN /\ nodes' = add_subtree(nodes, tree, "iffalse", m)
               /\ tree' = Len(nodes) + 1
        ELSE IF m_no_space = L_iftrue \/ m_no_space = L_if1
          THEN /\ nodes' = add_subtree(nodes, tree, "iftrue", m)
               /\ tree' = Len(nodes) + 1
        ELSE IF Tail(m_no_space) \in exceptions \cup if_exceptions
          THEN UNCHANGED <<nodes, tree>>
        ELSE /\ nodes' = add_subtree(nodes, tree, "unknown", m)
             /\ tree' = Len(nodes) + 1
  /\ m' = m + 1
  /\ UNCHANGED <<pc, text, matches, positions_to_delete, kept, outcome,
                 if_exceptions, texVars, cmdVars, refVars, comVars, envVars,
                 pipeVars>>

\* the branch for \else
ScanElse ==
  /\ pc = "cond" /\ m <= Len(matches)
  /\ NoSpace(matches[m]) = L_else
  /\ IF nodes[tree].parent = 0
       THEN /\ outcome' = Abort(nodes, "unmatched else")
            /\ pc' = "cond_done"
            /\ UNCHANGED <<nodes, m>>
     ELSE IF nodes[tree].else # 0
       THEN /\ outcome' = Abort(nodes, "duplicate else")
            /\ pc' = "cond_done"
            /\ UNCHANGED <<nodes, m>>
     ELSE /\ nodes' = [nodes EXCEPT ![tree].else = m]
          /\ m' = m + 1
          /\ UNCHANGED <<pc, outcome>>
  /\ kept' = IF outcome'.kind = "returned" THEN [k \in 1..Len(text) |-> k] ELSE kept
  /\ UNCHANGED <<text, matches, tree, positions_to_delete, if_exceptions,
                 texVars, cmdVars, refVars, comVars, envVars, pipeVars>>

\* the branch for \fi
ScanFi ==
  /\ pc = "cond" /\ m <= Len(matches)
  /\ matches[m].group = L_fi
  /\ IF nodes[tree].parent = 0
       THEN /\ outcome' = Abort(nodes, "unmatched fi")
            /\ pc' = "cond_done"
            /\ kept' = IF outcome'.kind = "returned"
                         THEN [k \in 1..Len(text) |-> k] ELSE kept
            /\ UNCHANGED <<nodes, tree, m>>
       ELSE /\ nodes' = [nodes EXCEPT ![tree].end = m]
            /\ tree' = nodes[tree].parent
            /\ m' = m + 1
            /\ UNCHANGED <<pc, outcome, kept>>
  /\ UNCHANGED <<text, matches, positions_to_delete, if_exceptions, texVars,
                 cmdVars, refVars, comVars, envVars, pipeVars>>

\* after the loop: the check for an open conditional, then traverse_tree over
\* toplevel_tree['left'] and the deletion of the spans
Finish ==
  /\ pc = "cond" /\ m > Len(matches)
  /\ pc' = "cond_done"
  /\ IF nodes[tree].parent # 0
       THEN /\ outcome' = Abort(nodes, "unmatched if")
            /\ kept' = IF outcome'.kind = "returned"
                         THEN [k \in 1..Len(text) |-> k] ELSE kept
            /\ UNCHANGED positions_to_delete
       ELSE /\ positions_to_delete' = traverse_all(nodes, matches, nodes[1].left)
            /\ kept' = DeleteSpans(text, [k \in 1..Len(text) |-> k],
                                   positions_to_delete')
            /\ outcome' = [kind |-> "simplified", warning |-> ""]
  /\ UNCHANGED <<text, matches, m, nodes, tree, if_exceptions, texVars,
                 cmdVars, refVars, comVars, envVars, pipeVars>>

\* the text _simplify_conditional_blocks returns
CondResult == Pick(text, kept)

CondNext == ScanStart \/ ScanElse \/ ScanFi \/ Finish

SpecCond == CondInit /\ [][CondNext]_vars

-----------------------------------------------------------------------------
(* Resolving the conditionals by hand: one pass over the tokens with a stack
   of the open conditionals, independent of the tree and of the spans *)

IsFalseStart(g) == g = L_iffalse \/ g = L_if0

IsTrueStart(g) == g = L_iftrue \/ g = L_if1

IsStart(tok) ==
  /\ StartsWithIf(NoSpace(tok))
  /\ (IsFalseStart(NoSpace(tok)) \/ IsTrueStart(NoSpace(tok))
        \/ Tail(NoSpace(tok)) \notin exceptions \cup if_exceptions)

\* the branch the scan stands in survives
Live(stack) ==
  \A k \in 1..Len(stack) :
    \/ stack[k].kind = "unknown"
    \/ stack[k].kind = "iftrue" /\ ~stack[k].inElse
    \/ stack[k].kind = "iffalse" /\ stack[k].inElse

HandKind(tok) ==
  IF IsFalseStart(NoSpace(tok)) THEN "iffalse"
  ELSE IF IsTrueStart(NoSpace(tok)) THEN "iftrue" ELSE "unknown"

RECURSIVE HandScan(_, _, _, _, _, _)
HandScan(t, ms, k, from, stack, acc) ==
  IF k > Len(ms)
    THEN [ok |-> acc.ok /\ stack = <<>>,
          keep |-> acc.keep \cup (IF Live(stack) THEN from..Len(t) ELSE {})]
  ELSE
    LET tok == ms[k]
        before == IF Live(stack) THEN from..(tok.s - 1) ELSE {}
        span == tok.s..(tok.e - 1)
        top == stack[Len(stack)]
        rest == SubSeq(stack, 1, Len(stack) - 1)
    IN IF IsStart(tok) THEN
         HandScan(t, ms, k + 1, tok.e,
                  Append(stack, [kind |-> HandKind(tok), inElse |-> FALSE]),
                  [ok |-> acc.ok,
                   keep |-> acc.keep \cup before \cup
                            (IF HandKind(tok) = "unknown" /\ Live(stack)
                               THEN span ELSE {})])
       ELSE IF tok.group = L_else THEN
         IF stack = <<>> \/ top.inElse
           THEN [ok |-> FALSE, keep |-> {}]
           ELSE HandScan(t, ms, k + 1, tok.e,
                         Append(rest, [top EXCEPT !.inElse = TRUE]),
                         [ok |-> acc.ok,
                          keep |-> acc.keep \cup before \cup
                                   (IF top.kind = "unknown" /\ Live(rest)
                                      THEN span ELSE {})])
       ELSE IF tok.group = L_fi THEN
         IF stack = <<>>
           THEN [ok |-> FALSE, keep |-> {}]
           ELSE HandScan(t, ms, k + 1, tok.e, rest,
                         [ok |-> acc.ok,
                          keep |-> acc.keep \cup before \cup
                                   (IF top.kind = "unknown" /\ Live(rest)
                                      THEN span ELSE {})])
       ELSE HandScan(t, ms, k + 1, tok.e, stack,
                     [ok |-> acc.ok,
                      keep |-> acc.keep \cup before \cup
                               (IF Live(stack) THEN span ELSE {})])

ByHand == HandScan(text, matches, 1, 1, <<>>, [ok |-> TRUE, keep |-> {}])

\* whitespace that directly follows deleted text, or such whitespace
AfterDeleted(keep) ==
  {p \in keep : /\ IsSpace(text[p])
                /\ \E q \in 1..(p - 1) :
                     /\ q \notin keep
                     /\ \A r \in (q + 1)..p : r \in keep /\ IsSpace(text[r])}

AllResolved ==
  \A k \in 1..Len(matches) :
    IsStart(matches[k]) => HandKind(matches[k]) # "unknown"

Range(f) == {f[k] : k \in DOMAIN f}

Increasing(ks) == \A i, j \in 1..Len(ks) : i < j => ks[i] < ks[j]

Malformed == outcome.warning # ""

\* C1: for every malformed text (unmatched \else, duplicate \else, unmatched
\* \fi, conditional open at end of input) the call returns normally and its
\* result is the input text, character for character.
C1_MalformedReturnsInput ==
  (pc = "cond_done" /\ Malformed) =>
    (outcome.kind = "returned" /\ CondResult = text)

\* C2: for every well-formed text whose conditionals are all resolved, the
\* returned text is the text resolved by hand: every character of a false
\* branch and of a start, \else or \fi token is gone, and every character of a
\* surviving branch is there, in order, except whitespace that directly
\* follows deleted text.
C2_EqualsByHand ==
  (pc = "cond_done" /\ ByHand.ok /\ AllResolved) =>
    /\ outcome.kind = "simplified"
    /\ Increasing(kept)
    /\ Range(kept) \subseteq ByHand.keep
    /\ ByHand.keep \ AfterDeleted(ByHand.keep) \subseteq Range(kept)
    /\ \A k \in 1..Len(matches) :
         \A q \in matches[k].s..(matches[k].e - 1) : q \notin Range(kept)

-----------------------------------------------------------------------------
(* _keep_only_referenced_tex *)

\* the offset of the last c in t, 0 when there is none
RECURSIVE LastIndexOf(_, _, _)
LastIndexOf(t, c, i) ==
  IF i = 0 THEN 0 ELSE IF t[i] = c THEN i ELSE LastIndexOf(t, c, i - 1)

\* os.path.splitext(fn)[0]: fn up to the last dot of its base name, a dot
\* that leads the base name aside
SplitextRoot(fn) ==
  LET slash == LastIndexOf(fn, "/", Len(fn))
      dot == LastIndexOf(fn, ".", Len(fn))
  IN IF dot > slash + 1 THEN SubSeq(fn, 1, dot - 1) ELSE fn

\* '\n'.join(lines)
RECURSIVE JoinLines(_)
JoinLines(ls) ==
  IF ls = <<>> THEN <<>>
  ELSE IF Len(ls) = 1 THEN ls[1]
  ELSE ls[1] \o <<Newline>> \o JoinLines(Tail(ls))

\* regex.search('(' + splitext(fn)[0] + '[.}])', '\n'.join(contents[fn2])),
\* for names without regex metacharacters
SearchStem(fn, body) ==
  LET stem == SplitextRoot(fn) IN
  \E i \in 1..Len(body) :
    /\ LitAt(body, i, stem)
    /\ i + Len(stem) <= Len(body)
    /\ body[i + Len(stem)] \in {".", "}"}

\* a pass that looks for references in the bodies of the root files only
TexPassRootBodies(cs, roots, old) ==
  roots \cup {fn \in old : \E fn2 \in roots : SearchStem(fn, JoinLines(cs[fn2]))}

\* a pass that collects, among all files, those that no file of the set
\* references
TexPassUnreferenced(cs, roots, old) ==
  roots \cup {fn \in DOMAIN cs :
               ~\E fn2 \in old : SearchStem(fn, JoinLines(cs[fn2]))}

\* a pass that looks for references in the bodies of all files
TexPassAllBodies(cs, roots, old) ==
  roots \cup {fn \in old :
               \E fn2 \in DOMAIN cs : SearchStem(fn, JoinLines(cs[fn2]))}

\* one pass of the while loop: the set `referenced` it builds from old
TexPass(cs, roots, old) ==
  roots \cup {fn \in old : \E fn2 \in old : SearchStem(fn, JoinLines(cs[fn2]))}

NumNested == 3

RootFile == <<"m", ".", "t", "e", "x">>

NestedNames ==
  <<<<"s", "/", "a", ".", "t", "e", "x">>,
    <<"s", "/", "b", ".", "t", "e", "x">>,
    <<"s", "/", "c", ".", "t", "e", "x">>,
    <<"s", "/", "d", ".", "t", "e", "x">>,
    <<"s", "/", "e", ".", "t", "e", "x">>>>

NestedFiles == {NestedNames[k] : k \in 1..NumNested}

L_input == <<"\\", "i", "n", "p", "u", "t", "{">>

RefLine(fn) == L_input \o SplitextRoot(fn) \o <<"}">>

DotLine(fn) == L_input \o fn \o <<"}">>

\* the bodies a file is given: no reference, one reference, two references,
\* a name that nothing follows, a name cut from its brace by a line end
TexBodies ==
  {<< <<>> >>}
  \cup {<<RefLine(f)>> : f \in NestedFiles}
  \cup {<<RefLine(NestedNames[k]), DotLine(NestedNames[k + 1])>> :
          k \in 1..(NumNested - 1)}
  \cup {<<SplitextRoot(NestedNames[1]) \o <<" ", "x">>>>,
        <<L_input \o SplitextRoot(NestedNames[1]), <<"}">>>>}

TexInit ==
  /\ pc = "tex" /\ CondIdle /\ CmdIdle /\ RefIdle /\ ComIdle
  /\ EnvIdle /\ PipeIdle
  /\ contents \in [{RootFile} \cup NestedFiles -> TexBodies]
  /\ splits = [tex_in_root |-> {RootFile}, tex_not_in_root |-> NestedFiles,
               tex_to_copy |-> {}]
  /\ old_referenced = splits.tex_in_root \cup splits.tex_not_in_root
  /\ referenced = {}

\* one iteration of `while True`
Pass ==
  /\ pc = "tex"
  /\ referenced' = TexPass(contents, splits.tex_in_root, old_referenced)
  /\ IF referenced' = old_referenced
       THEN /\ splits' = [splits EXCEPT !.tex_to_copy = referenced']
            /\ pc' = "tex_done"
            /\ UNCHANGED old_referenced
       ELSE /\ old_referenced' = referenced'
            /\ UNCHANGED <<pc, splits>>
  /\ UNCHANGED <<contents, condVars, cmdVars, refVars, comVars, envVars,
                 pipeVars>>

TexNext == Pass

SpecTex == TexInit /\ [][TexNext]_vars

\* fn2's body references fn
References(fn2, fn) == SearchStem(fn, JoinLines(contents[fn2]))

AllTex == splits.tex_in_root \cup splits.tex_not_in_root

\* the files a chain of references reaches from the roots
RECURSIVE ReachFrom(_)
ReachFrom(S) ==
  LET T == S \cup {fn \in AllTex : \E fn2 \in S : References(fn2, fn)}
  IN IF T = S THEN S ELSE ReachFrom(T)

LeastFixedPoint == ReachFrom(splits.tex_in_root)

\* C3: tex_to_copy is the least fixed point of the reference relation: the
\* smallest set that holds the roots and every file referenced by a file of
\* the set.
C3_LeastFixedPoint ==
  pc = "tex_done" => splits.tex_to_copy = LeastFixedPoint

\* C4: every file that a chain of references reaches from a root is in
\* tex_to_copy.
C4_ReachableKept ==
  pc = "tex_done" => LeastFixedPoint \subseteq splits.tex_to_copy

\* the root references B only, B references A, and both are copied
C4_Witness ==
  /\ pc = "tex_done"
  /\ \E A, B \in splits.tex_not_in_root :
       /\ A # B
       /\ References(RootFile, B) /\ ~References(RootFile, A)
       /\ References(B, A)
       /\ \A f \in AllTex \ {B} : ~References(f, A)
       /\ {A, B} \subseteq splits.tex_to_copy

-----------------------------------------------------------------------------
(* _remove_command *)

\* the offset of the brace that closes the brace at p, 0 when there is none:
\* what \{((?:[^{}]+|\{(?1)\})*)\} and \{((?:[^{}]|(?R))*)\} match from p
RECURSIVE CloseScan(_, _, _)
CloseScan(t, i, depth) ==
  IF i > Len(t) THEN 0
  ELSE IF t[i] = "{" THEN CloseScan(t, i + 1, depth + 1)
  ELSE IF t[i] = "}" THEN (IF depth = 1 THEN i ELSE CloseScan(t, i + 1, depth - 1))
  ELSE CloseScan(t, i + 1, depth)

CloseOf(t, p) == CloseScan(t, p + 1, 1)

\* (?:\[(?:.*?)\])* from offset j: the offsets where it can end, in the order
\* the backtracking matcher tries them (one more group first, the group's
\* lazy .*? ending at the nearest ']' of the line first, no group last)
RECURSIVE OptEnds(_, _)
RECURSIVE OptEndsFrom(_, _, _)
OptEndsFrom(t, j, k) ==
  IF k > Len(t) \/ t[k] = Newline THEN <<>>
  ELSE IF t[k] = "]" THEN OptEnds(t, k + 1) \o OptEndsFrom(t, j, k + 1)
  ELSE OptEndsFrom(t, j, k + 1)

OptEnds(t, j) ==
  (IF j <= Len(t) /\ t[j] = "[" THEN OptEndsFrom(t, j, j + 1) ELSE <<>>)
  \o <<j>>

\* the first offset of ends at which a balanced brace group starts, 0 if none
RECURSIVE FirstArg(_, _)
FirstArg(t, ends) ==
  IF ends = <<>> THEN 0
  ELSE IF Head(ends) <= Len(t) /\ t[Head(ends)] = "{" /\ CloseOf(t, Head(ends)) # 0
    THEN Head(ends)
  ELSE FirstArg(t, Tail(ends))

\* a pattern that lets word characters follow the command name
MatchAtPrefix(t, cmd, i) ==
  LET name == <<Backslash>> \o cmd
      a == IF LitAt(t, i, name)
             THEN FirstArg(t, OptEnds(t, WordRunEnd(t, i + Len(name))))
             ELSE 0
  IN IF a = 0 THEN [s |-> i, e |-> 0, a |-> 0, c |-> 0]
     ELSE [s |-> i, e |-> Head(OptEnds(t, CloseOf(t, a) + 1)), a |-> a,
           c |-> CloseOf(t, a)]

\* the match of base_pattern at offset i: s, e its span, a the offset of the
\* brace that opens group 1 and c of the brace that closes it; e = 0: no match
MatchAt(t, cmd, i) ==
  LET name == <<Backslash>> \o cmd
      a == IF LitAt(t, i, name) THEN FirstArg(t, OptEnds(t, i + Len(name))) ELSE 0
  IN IF a = 0 THEN [s |-> i, e |-> 0, a |-> 0, c |-> 0]
     ELSE [s |-> i, e |-> Head(OptEnds(t, CloseOf(t, a) + 1)), a |-> a,
           c |-> CloseOf(t, a)]

\* regex.finditer(base_pattern, text)
RECURSIVE FindAll(_, _, _)
FindAll(t, cmd, i) ==
  IF i > Len(t) THEN <<>>
  ELSE LET mt == MatchAt(t, cmd, i)
       IN IF mt.e # 0 THEN <<mt>> \o FindAll(t, cmd, mt.e)
          ELSE FindAll(t, cmd, i + 1)

\* extract_text_inside_curly_braces: group 1 of the leftmost match of
\* \{((?:[^{}]|(?R))*)\} in the command string, '' without a match
RECURSIVE ExtractFrom(_, _)
ExtractFrom(sub, p) ==
  IF p > Len(sub) THEN <<>>
  ELSE IF sub[p] = "{" /\ CloseOf(sub, p) # 0
    THEN Slice(sub, p + 1, CloseOf(sub, p))
  ELSE ExtractFrom(sub, p + 1)

\* a helper that returns the command string as it is
extract_whole_command(sub) == sub

extract_text_inside_curly_braces(sub) == ExtractFrom(sub, 1)

\* text[match.span()[1]:].find('\n') as an offset of t, 0 for -1
RECURSIVE FindNewline(_, _)
FindNewline(t, i) ==
  IF i > Len(t) THEN 0 ELSE IF t[i] = Newline THEN i ELSE FindNewline(t, i + 1)

IsSpaceStr(t) == t # <<>> /\ \A k \in 1..Len(t) : IsSpace(t[k])

\* a new_substring that is never the percent sign
NewSubstringNoPercent(t, mt, keep) ==
  IF ~keep THEN <<>>
  ELSE extract_text_inside_curly_braces(Slice(t, mt.s, mt.e))

\* the new_substring of one match
NewSubstring(t, mt, keep) ==
  LET base == IF ~keep THEN <<>>
              ELSE extract_text_inside_curly_braces(Slice(t, mt.s, mt.e))
      next_newline == FindNewline(t, mt.e)
      text_until_newline == Slice(t, mt.e, next_newline)
  IN IF /\ mt.e <= Len(t)
        /\ next_newline # 0
        /\ (text_until_newline = <<>> \/ IsSpaceStr(text_until_newline))
        /\ ~keep
       THEN <<"%">>
       ELSE base

\* the list all_substitutions of one pass
Substitutions(t, cmd, keep) ==
  LET ms == FindAll(t, cmd, 1)
  IN [k \in 1..Len(ms) |->
        [start |-> ms[k].s, end |-> ms[k].e, new |-> NewSubstring(t, ms[k], keep)]]

\* for start, end, new_substring in reversed(all_substitutions)
RECURSIVE ApplySubstitutions(_, _)
ApplySubstitutions(t, subs) ==
  IF subs = <<>> THEN t
  ELSE LET sb == subs[Len(subs)]
       IN ApplySubstitutions(
            SubSeq(t, 1, sb.start - 1) \o sb.new \o SubSeq(t, sb.end, Len(t)),
            SubSeq(subs, 1, Len(subs) - 1))

MaxCmdChunks == 4

MaxCmdDepth == 2

TheCommand == <<"c">>

CmdOpens ==
  {<<"\\", "c", "{">>,
   <<"\\", "c", "[", "o", "]", "{">>,
   <<"\\", "c", "[", "{", "o", "}", "]", "{">>,
   <<"\\", "e", "{">>}

CmdChunks ==
  CmdOpens \cup {<<"}">>, <<"a">>, <<Newline>>, <<" ">>, <<"[", "o", "]">>}

CmdPads == {<<>>, <<"a">>}

\* invocations nested in the argument of invocations, d deep
RECURSIVE NestedTexts(_)
NestedTexts(d) ==
  IF d = 0 THEN CmdPads
  ELSE {pre \o open \o inner \o <<"}">> \o post :
          pre \in CmdPads, open \in CmdOpens, inner \in NestedTexts(d - 1),
          post \in CmdPads}

\* two invocations on lines: gap, invocation, gap, invocation, gap
CmdInvocations ==
  {<<"\\", "c", "{", "a", "}">>,
   <<"\\", "c", "{", "a", "}", "[", "o", "]">>,
   <<"\\", "c", "[", "o", "]", "{", "a", "\n", "a", "}">>}

CmdGaps == {<<>>, <<"a">>, <<" ">>, <<Newline>>}

TwoInvocationTexts ==
  {g1 \o i1 \o g2 \o i2 \o g3 :
     g1 \in CmdGaps, i1 \in CmdInvocations, g2 \in CmdGaps,
     i2 \in CmdInvocations, g3 \in CmdGaps}

\* commands whose names begin with the command name
PrefixOpens ==
  {<<"\\", "c", "a", "{">>,
   <<"\\", "c", "c", "[", "o", "]", "{">>,
   <<"\\", "c", "1", "{">>}

\* an invocation of such a command, with invocations of the command
\* before it, in its argument and after it
PrefixTexts ==
  {pre \o g1 \o open \o body \o <<"}">> \o g2 \o post :
     pre \in {<<>>} \cup CmdInvocations, g1 \in CmdGaps, open \in PrefixOpens,
     body \in {<<>>, <<"a">>, <<"\\", "c", "{", "a", "}">>},
     g2 \in CmdGaps, post \in {<<>>, <<"\\", "c", "{", "a", "}">>}}

CmdInit ==
  /\ pc = "cmd" /\ CondIdle /\ TexIdle /\ RefIdle /\ ComIdle
  /\ EnvIdle /\ PipeIdle
  /\ command = TheCommand
  /\ keep_text \in BOOLEAN
  /\ cmd_in \in {Flatten(cs) : cs \in SeqsUpTo(CmdChunks, MaxCmdChunks)}
                \cup NestedTexts(MaxCmdDepth) \cup TwoInvocationTexts
                \cup PrefixTexts
  /\ cmd_text = cmd_in
  /\ cmd_prev = cmd_in
  /\ all_substitutions = <<>>

\* one iteration of `while True`
RemovePass ==
  /\ pc = "cmd"
  /\ all_substitutions' = Substitutions(cmd_text, command, keep_text)
  /\ cmd_prev' = cmd_text
  /\ cmd_text' = ApplySubstitutions(cmd_text, all_substitutions')
  /\ pc' = IF ~keep_text \/ all_substitutions' = <<>> THEN "cmd_done" ELSE "cmd"
  /\ UNCHANGED <<command, keep_text, cmd_in, condVars, texVars, refVars,
                 comVars, envVars, pipeVars>>

CmdNext == RemovePass

SpecCmd == CmdInit /\ [][CmdNext]_vars

\* the text with each match replaced by repl(match), built left to right
RECURSIVE Rebuild(_, _, _, _)
Rebuild(t, ms, repl, from) ==
  IF ms = <<>> THEN SubSeq(t, from, Len(t))
  ELSE SubSeq(t, from, Head(ms).s - 1) \o repl[Head(ms).s]
       \o Rebuild(t, Tail(ms), repl, Head(ms).e)

\* the text inside the braces of the argument (group 1) of a match
Argument(t, mt) == Slice(t, mt.a + 1, mt.c)

PrevMatches == FindAll(cmd_prev, command, 1)

\* C5: with keep_text, each matched invocation is replaced by exactly the text
\* inside the balanced-brace argument the match selected, option groups
\* dropped, and nothing else changes.
C5_ReplacedByArgument ==
  (pc \in {"cmd", "cmd_done"} /\ keep_text /\ all_substitutions # <<>>) =>
    /\ \A k \in 1..Len(all_substitutions) :
         all_substitutions[k].new = Argument(cmd_prev, PrevMatches[k])
    /\ cmd_text = Rebuild(cmd_prev, PrevMatches,
                          [i \in 1..Len(cmd_prev) |->
                             Argument(cmd_prev, MatchAt(cmd_prev, command, i))], 1)

\* unwrapping by hand: the leftmost invocation gives way to its argument,
\* until no invocation is left
RECURSIVE Unwrap(_, _)
Unwrap(t, cmd) ==
  LET ms == FindAll(t, cmd, 1)
  IN IF ms = <<>> THEN t
     ELSE Unwrap(SubSeq(t, 1, ms[1].s - 1) \o Argument(t, ms[1])
                 \o SubSeq(t, ms[1].e, Len(t)), cmd)

\* C6: with keep_text the passes repeat until none finds a match, so the
\* returned text holds no invocation of the command and is the input with
\* every invocation, nested ones included, replaced by its argument; the
\* rest of the argument is intact.
C6_AllUnwrapped ==
  (pc = "cmd_done" /\ keep_text) =>
    /\ FindAll(cmd_text, command, 1) = <<>>
    /\ cmd_text = Unwrap(cmd_in, command)

\* only whitespace stands between offset e and the next newline
LineRestBlank(t, e) ==
  \E q \in e..Len(t) :
    /\ t[q] = Newline
    /\ \A r \in e..(q - 1) : IsSpace(t[r]) /\ t[r] # Newline

\* C7: without keep_text each matched invocation is replaced by '%' when only
\* whitespace (or nothing) stands between the match and the next newline, and
\* by the empty string otherwise; the text outside the matches is unchanged.
C7_PercentOrEmpty ==
  (pc = "cmd_done" /\ ~keep_text) =>
    cmd_text = Rebuild(cmd_in, FindAll(cmd_in, command, 1),
                       [i \in 1..Len(cmd_in) |->
                          IF LineRestBlank(cmd_in, MatchAt(cmd_in, command, i).e)
                            THEN <<"%">> ELSE <<>>], 1)

\* a deleting call that replaced one invocation by '%' and another by nothing
C7_Witness ==
  /\ pc = "cmd_done" /\ ~keep_text
  /\ \E k \in 1..Len(all_substitutions) : all_substitutions[k].new = <<"%">>
  /\ \E k \in 1..Len(all_substitutions) : all_substitutions[k].new = <<>>

-----------------------------------------------------------------------------
(* _search_reference *)

\* str.lower() of one character, for regex.IGNORECASE
Lower(c) ==
  CASE c = "I" -> "i" [] c = "M" -> "m" [] c = "G" -> "g" [] c = "E" -> "e"
    [] c = "X" -> "x" [] c = "T" -> "t" [] c = "P" -> "p" [] c = "A" -> "a"
    [] c = "O" -> "o" [] OTHER -> c

LowerStr(t) == [k \in 1..Len(t) |-> Lower(t[k])]

\* the components of a path between its separators
RECURSIVE SplitPath(_, _)
SplitPath(fn, acc) ==
  IF fn = <<>> THEN <<acc>>
  ELSE IF Head(fn) = "/" THEN <<acc>> \o SplitPath(Tail(fn), <<>>)
  ELSE SplitPath(Tail(fn), Append(acc, Head(fn)))

PathParts(fn) == SplitPath(fn, <<>>)

BaseName(fn) == PathParts(fn)[Len(PathParts(fn))]

\* pathlib.Path(filename).stem and .suffix
Stem(fn) == SplitextRoot(BaseName(fn))

Suffix(fn) == SubSeq(BaseName(fn), Len(Stem(fn)) + 1, Len(BaseName(fn)))

\* the names of reversed(filename_path.parents): Path('.') first, whose name
\* is '' (never '.'), then each directory from the top down
ParentNames(fn) == <<<<>>>> \o SubSeq(PathParts(fn), 1, Len(PathParts(fn)) - 1)

\* the strings path_prefix_regex matches after the fragments names[1..k]:
\* '({}{}{})?'.format(path_prefix_regex, fragment, os.sep) per fragment
RECURSIVE PrefixForms(_, _)
PrefixForms(names, k) ==
  IF k = 0 THEN {<<>>}
  ELSE {<<>>} \cup {f \o names[k] \o <<"/">> : f \in PrefixForms(names, k - 1)}

\* the strings filename_regex matches before the './' prefix is added
FilenameForms(fn, isStrict) ==
  IF isStrict THEN {fn}
  ELSE {pre \o Stem(fn) \o ext :
          pre \in PrefixForms(ParentNames(fn), Len(ParentNames(fn))),
          ext \in {<<>>, Suffix(fn)}}

\* [\s%]
IsPad(c) == IsSpace(c) \/ c = "%"

\* the form stands at offset i of t, case ignored
FormAt(t, i, form) ==
  /\ i + Len(form) - 1 <= Len(t)
  /\ \A k \in 1..Len(form) : Lower(t[i + k - 1]) = Lower(form[k])

\* (.<os.sep>)? : nothing, or any character but a newline and then the separator
DotSepEnds(t, i) ==
  {i} \cup (IF i + 1 <= Len(t) /\ t[i] # Newline /\ t[i + 1] = "/"
              THEN {i + 2} ELSE {})

\* regex.search(patn, contents, regex.IGNORECASE) is not None, for
\* patn = \{[\s%]*(./)?<filename_regex>[\s%]*\}
SearchReference(fn, t, isStrict) ==
  \E open \in 1..Len(t) :
    /\ t[open] = "{"
    /\ \E i \in (open + 1)..(Len(t) + 1) :
         /\ \A k \in (open + 1)..(i - 1) : IsPad(t[k])
         /\ \E j \in DotSepEnds(t, i) :
              \E form \in FilenameForms(fn, isStrict) :
                /\ FormAt(t, j, form)
                /\ \E close \in (j + Len(form))..Len(t) :
                     /\ t[close] = "}"
                     /\ \A k \in (j + Len(form))..(close - 1) : IsPad(t[k])

MaxRefChunks == 4

RefFiles ==
  {<<"i", "m", "g", ".", "e", "x", "t">>,
   <<"t", "o", "/", "i", "m", "g", ".", "e", "x", "t">>,
   <<"p", "a", "/", "t", "o", "/", "i", "m", "g", ".", "e", "x", "t">>}

RefChunks ==
  {<<"p", "a", "/">>,
   <<"t", "o", "/">>,
   <<"x", "/">>,
   <<".", "/">>,
   <<"/">>,
   <<"i", "m", "g">>,
   <<".", "e", "x", "t">>,
   <<" ">>,
   <<"%">>,
   <<"I", "M", "G">>}

RefInit ==
  /\ pc = "ref" /\ CondIdle /\ TexIdle /\ CmdIdle /\ ComIdle
  /\ EnvIdle /\ PipeIdle
  /\ filename \in RefFiles
  /\ strict \in BOOLEAN
  /\ ref_contents \in {<<"{">> \o Flatten(cs) \o <<"}">> :
                         cs \in SeqsUpTo(RefChunks, MaxRefChunks)}
  /\ found = FALSE

\* the call of _search_reference
Search ==
  /\ pc = "ref"
  /\ found' = SearchReference(filename, ref_contents, strict)
  /\ pc' = "ref_done"
  /\ UNCHANGED <<filename, ref_contents, strict, condVars, texVars, cmdVars,
                 comVars, envVars, pipeVars>>

RefNext == Search

SpecRef == RefInit /\ [][RefNext]_vars

(* references by hand: the content of a brace group, whitespace and '%' next
   to the braces and a leading './' dropped *)

RECURSIVE StripPadLeft(_)
StripPadLeft(t) ==
  IF t # <<>> /\ IsPad(Head(t)) THEN StripPadLeft(Tail(t)) ELSE t

RECURSIVE StripPadRight(_)
StripPadRight(t) ==
  IF t # <<>> /\ IsPad(t[Len(t)]) THEN StripPadRight(SubSeq(t, 1, Len(t) - 1)) ELSE t

DropDotSlash(t) ==
  IF Len(t) >= 2 /\ t[1] = "." /\ t[2] = "/" THEN SubSeq(t, 3, Len(t)) ELSE t

\* the references some brace group of t holds
GroupContents(t) ==
  {DropDotSlash(StripPadRight(StripPadLeft(SubSeq(t, i + 1, j - 1)))) :
     <<i, j>> \in {p \in (1..Len(t)) \X (1..Len(t)) :
                    p[1] < p[2] /\ t[p[1]] = "{" /\ t[p[2]] = "}"}}

RECURSIVE JoinPath(_)
JoinPath(parts) ==
  IF parts = <<>> THEN <<>>
  ELSE IF Len(parts) = 1 THEN parts[1]
  ELSE parts[1] \o <<"/">> \o JoinPath(Tail(parts))

\* the trailing parts of the path: its last k directories and the base name
TrailingParts(fn) ==
  {JoinPath(SubSeq(PathParts(fn), k, Len(PathParts(fn)))) :
     k \in 1..Len(PathParts(fn))}

\* a trailing part, with the extension or without it
LooseNames(fn) ==
  TrailingParts(fn)
  \cup {SubSeq(p, 1, Len(p) - Len(Suffix(fn))) : p \in TrailingParts(fn)}

SameIgnoringCase(a, b) == LowerStr(a) = LowerStr(b)

\* C8: in loose mode a match is found if and only if some brace group holds,
\* whitespace, '%' and a leading './' aside and case ignored, a contiguous
\* trailing part of the file's path, with its extension or without.
C8_LooseIffTrailingPart ==
  (pc = "ref_done" /\ ~strict) =>
    (found <=> \E g \in GroupContents(ref_contents) :
                 \E n \in LooseNames(filename) : SameIgnoringCase(g, n))

\* C9: in strict mode a match is found only when some brace group holds,
\* whitespace, '%' and a leading './' aside, exactly the file's full relative
\* path with its extension.
C9_StrictOnlyFullPath ==
  (pc = "ref_done" /\ strict /\ found) =>
    \E g \in GroupContents(ref_contents) : SameIgnoringCase(g, filename)

-----------------------------------------------------------------------------
(* _remove_comments_inline *)

L_autoignore == <<"a", "u", "t", "o", "-", "i", "g", "n", "o", "r", "e">>

L_url == <<Backslash, "u", "r", "l", "{">>

\* (%\s*auto-ignore) at offset i: the offset after the marker, 0 without one
AutoIgnoreEnd(t, i) ==
  IF /\ i <= Len(t) /\ t[i] = "%"
     /\ LitAt(t, SpaceRunEnd(t, i + 1), L_autoignore)
    THEN SpaceRunEnd(t, i + 1) + Len(L_autoignore)
    ELSE 0

\* regex.search(auto_ignore_pattern, text)
HasAutoIgnore(t) == \E i \in 1..Len(t) : AutoIgnoreEnd(t, i) > 0

\* the offset after .* from i: the next newline, or the end of the text
DotStarEnd(t, i) == IF FindNewline(t, i) = 0 THEN Len(t) + 1 ELSE FindNewline(t, i)

\* a substitution that replaces nothing
AutoIgnoreSubNothing(t, i) == Slice(t, i, Len(t) + 1)

\* regex.sub(auto_ignore_pattern, r'\1', text) from offset i on
RECURSIVE AutoIgnoreSub(_, _)
AutoIgnoreSub(t, i) ==
  IF i > Len(t) THEN <<>>
  ELSE IF AutoIgnoreEnd(t, i) > 0
    THEN Slice(t, i, AutoIgnoreEnd(t, i))
         \o AutoIgnoreSub(t, DotStarEnd(t, AutoIgnoreEnd(t, i)))
  ELSE <<t[i]>> \o AutoIgnoreSub(t, i + 1)

\* str.lstrip(c)
RECURSIVE LStripChar(_, _)
LStripChar(t, c) ==
  IF t # <<>> /\ Head(t) = c THEN LStripChar(Tail(t), c) ELSE t

\* str.lstrip()
LStrip(t) == Slice(t, SpaceRunEnd(t, 1), Len(t) + 1)

StartsWithPercent(t) == t # <<>> /\ Head(t) = "%"

\* the offset of the first brace at or after i, Len(t) + 1 without one
RECURSIVE BraceFrom(_, _)
BraceFrom(t, i) ==
  IF i > Len(t) \/ t[i] \in {"{", "}"} THEN i ELSE BraceFrom(t, i + 1)

\* url_pattern at offset i: the offset after the match, 0 without one.  In
\* (?>[^{}]|(?R)) the first alternative takes every character that is not a
\* brace and the group is atomic, so the recursion is tried only at a brace,
\* where it cannot match its leading backslash: the argument is a run of
\* characters that are not braces, closed by the first brace after it.
UrlEnd(t, i) ==
  IF /\ LitAt(t, i, L_url)
     /\ BraceFrom(t, i + Len(L_url)) <= Len(t)
     /\ t[BraceFrom(t, i + Len(L_url))] = "}"
    THEN BraceFrom(t, i + Len(L_url)) + 1
    ELSE 0

\* regex.split(f'({url_pattern})', text) from offset i on, cur the segment
\* gathered so far
RECURSIVE UrlSplit(_, _, _)
UrlSplit(t, i, cur) ==
  IF i > Len(t) THEN <<cur>>
  ELSE IF UrlEnd(t, i) > 0
    THEN <<cur, Slice(t, i, UrlEnd(t, i))>> \o UrlSplit(t, UrlEnd(t, i), <<>>)
  ELSE UrlSplit(t, i + 1, Append(cur, t[i]))

\* the offset of the first (?<!\\)% at or after i, 0 without one
RECURSIVE UnescapedPercent(_, _)
UnescapedPercent(t, i) ==
  IF i > Len(t) THEN 0
  ELSE IF t[i] = "%" /\ (i = 1 \/ t[i - 1] # Backslash) THEN i
  ELSE UnescapedPercent(t, i + 1)

remove_comments(segment) ==
  IF StartsWithPercent(LStrip(segment)) THEN [text |-> <<>>, match |-> TRUE]
  ELSE IF UnescapedPercent(segment, 1) > 0
    THEN [text |-> Slice(segment, 1, UnescapedPercent(segment, 1) + 1)
                     \o <<Newline>>,
          match |-> TRUE]
  ELSE [text |-> segment, match |-> FALSE]

\* the loop over the segments from segment k on, joined
RECURSIVE JoinSegments(_, _)
JoinSegments(segments, k) ==
  IF k > Len(segments) THEN <<>>
  ELSE IF UrlEnd(segments[k], 1) > 0
    THEN segments[k] \o JoinSegments(segments, k + 1)
  ELSE IF remove_comments(segments[k]).match
    THEN remove_comments(segments[k]).text
  ELSE segments[k] \o JoinSegments(segments, k + 1)

EndsWith(t, lit) == LitAt(t, Len(t) - Len(lit) + 1, lit)

\* a final text that is always given one more newline
FinalTextAlwaysNewline(final_text) == final_text \o <<Newline>>

\* the returned final text
FinalText(final_text) ==
  IF EndsWith(final_text, <<Newline>>) \/ EndsWith(final_text, <<Backslash, "n">>)
    THEN final_text
    ELSE final_text \o <<Newline>>

RemoveCommentsInline(t) ==
  IF HasAutoIgnore(t) THEN AutoIgnoreSub(t, 1)
  ELSE IF StartsWithPercent(LStripChar(LStripChar(t, " "), Tab)) THEN <<>>
  ELSE FinalText(JoinSegments(UrlSplit(t, 1, <<>>), 1))

MaxComChunks == 4

ComChunks ==
  {L_url, <<"}">>, <<"{">>, <<"%">>, <<Backslash>>, <<"a">>, <<"n">>,
   <<" ">>, <<Tab>>, L_autoignore}

\* a line: no newline but at its end
ComLines ==
  {Flatten(cs) \o nl : cs \in SeqsUpTo(ComChunks, MaxComChunks),
                       nl \in {<<>>, <<Newline>>}}

ComInit ==
  /\ pc = "com" /\ CondIdle /\ TexIdle /\ CmdIdle /\ RefIdle
  /\ EnvIdle /\ PipeIdle
  /\ line \in ComLines
  /\ once = <<>>
  /\ twice = <<>>

\* the line is stripped
StripOnce ==
  /\ pc = "com"
  /\ once' = RemoveCommentsInline(line)
  /\ pc' = "com_once"
  /\ UNCHANGED <<line, twice, condVars, texVars, cmdVars, refVars, envVars,
                 pipeVars>>

\* the stripped line is stripped again
StripTwice ==
  /\ pc = "com_once"
  /\ twice' = RemoveCommentsInline(once)
  /\ pc' = "com_done"
  /\ UNCHANGED <<line, once, condVars, texVars, cmdVars, refVars, envVars,
                 pipeVars>>

ComNext == StripOnce \/ StripTwice

SpecCom == ComInit /\ [][ComNext]_vars

\* the line is a comment from its first character that is not a leading space
\* or, after the spaces, a leading tab, and holds no auto-ignore marker
WholeLineComment(t) ==
  /\ ~HasAutoIgnore(t)
  /\ StartsWithPercent(LStripChar(LStripChar(t, " "), Tab))

\* C10 as stated: stripping a stripped line changes nothing.
C10_Idempotent ==
  pc = "com_done" => twice = once

\* C10, amended: stripping a stripped line changes nothing unless the line was
\* a whole-line comment; such a line is stripped to the empty string, and the
\* empty string is stripped to a single newline.
C10_IdempotentUnlessEmptied ==
  pc = "com_done" =>
    /\ (once = <<>>) <=> WholeLineComment(line)
    /\ once # <<>> => twice = once
    /\ once = <<>> => twice = <<Newline>>

\* a trailing comment was cut from a line, and stripping the result again
\* gave the result
C10_Witness ==
  /\ pc = "com_done"
  /\ ~WholeLineComment(line)
  /\ \E k \in 1..Len(once) : once[k] = "%"
  /\ Len(once) < Len(line)
  /\ twice = once

-----------------------------------------------------------------------------
(* _remove_comments_inline: the three rules, by hand *)

\* offset k lies inside the balanced-brace argument of a \url{...} of t
InsideUrl(t, k) ==
  \E i \in 1..Len(t) :
    /\ LitAt(t, i, L_url)
    /\ CloseOf(t, i + Len(L_url) - 1) # 0
    /\ i + Len(L_url) - 1 < k
    /\ k < CloseOf(t, i + Len(L_url) - 1)

\* a '%' that starts a comment: not escaped, not inside a \url{...}
CommentAt(t, k) ==
  /\ t[k] = "%"
  /\ (k = 1 \/ t[k - 1] # Backslash)
  /\ ~InsideUrl(t, k)

HasComment(t) == \E k \in 1..Len(t) : CommentAt(t, k)

FirstComment(t) ==
  CHOOSE k \in 1..Len(t) :
    CommentAt(t, k) /\ \A j \in 1..(k - 1) : ~CommentAt(t, j)

\* the line cut after its first comment character, or the whole line, ended
\* by one newline
CutAfterComment(t) ==
  IF HasComment(t) THEN Slice(t, 1, FirstComment(t) + 1) \o <<Newline>>
  ELSE IF EndsWith(t, <<Newline>>) THEN t
  ELSE t \o <<Newline>>

\* C11: a line without auto-ignore marker whose first character that is not
\* whitespace is not '%' is returned cut after its first '%' that is neither
\* escaped nor inside the argument of a \url{...}, with one newline after it;
\* without such a '%' it is returned unchanged but for the final newline.
C11_CutAfterFirstComment ==
  (pc = "com_done" /\ ~HasAutoIgnore(line) /\ ~StartsWithPercent(LStrip(line)))
    => once = CutAfterComment(line)

\* C12: a line without auto-ignore marker whose first character after its
\* leading spaces and tabs, in any order, is '%' is returned as the empty
\* string.
C12_WholeLineCommentEmptied ==
  (pc = "com_done" /\ ~HasAutoIgnore(line) /\ StartsWithPercent(LStrip(line)))
    => once = <<>>

\* the offset of the first auto-ignore marker of t
FirstMarker(t) ==
  CHOOSE i \in 1..Len(t) :
    AutoIgnoreEnd(t, i) > 0 /\ \A j \in 1..(i - 1) : AutoIgnoreEnd(t, j) = 0

\* C13 as stated: a line with an auto-ignore marker is returned unchanged.
C13_LineUnchanged ==
  (pc = "com_done" /\ HasAutoIgnore(line)) => once = line

\* C13, amended: of a line with an auto-ignore marker the text before the
\* first marker and the marker are returned unchanged, the text after the
\* marker is removed up to the newline of the line, and the newline is kept.
C13_MarkerKeptRestDropped ==
  (pc = "com_done" /\ HasAutoIgnore(line)) =>
    once = Slice(line, 1, AutoIgnoreEnd(line, FirstMarker(line)))
           \o (IF EndsWith(line, <<Newline>>) THEN <<Newline>> ELSE <<>>)

\* a line with text before its marker and text after it was stripped
C13_Witness ==
  /\ pc = "com_done"
  /\ HasAutoIgnore(line)
  /\ FirstMarker(line) > 1
  /\ Len(once) < Len(line)
  /\ EndsWith(line, <<Newline>>)

-----------------------------------------------------------------------------
(* _remove_environment *)

L_begin == <<Backslash, "b", "e", "g", "i", "n", "{">>

L_end == <<Backslash, "e", "n", "d", "{">>

\* the offset after the longest run of the character c from i
RECURSIVE CharRunEnd(_, _, _)
CharRunEnd(t, i, c) ==
  IF i <= Len(t) /\ t[i] = c THEN CharRunEnd(t, i + 1, c) ELSE i

\* the environment name, put into the pattern as it is, from its character k
\* on at offset i: the offset after it, 0 without a match.  A character
\* followed by '*' is a run of that character, as long as it can be (what
\* follows a run in the names used is never the character of the run).
RECURSIVE NameEnd(_, _, _, _)
NameEnd(t, i, name, k) ==
  IF k > Len(name) THEN i
  ELSE IF k < Len(name) /\ name[k + 1] = "*"
    THEN NameEnd(t, CharRunEnd(t, i, name[k]), name, k + 2)
  ELSE IF i <= Len(t) /\ t[i] = name[k] THEN NameEnd(t, i + 1, name, k + 1)
  ELSE 0

\* \\begin\{ or \\end\{, the name and } at offset i: the offset after them,
\* 0 without a match
EnvTagEnd(t, i, tag, name) ==
  IF /\ LitAt(t, i, tag)
     /\ NameEnd(t, i + Len(tag), name, 1) # 0
     /\ NameEnd(t, i + Len(tag), name, 1) <= Len(t)
     /\ t[NameEnd(t, i + Len(tag), name, 1)] = "}"
    THEN NameEnd(t, i + Len(tag), name, 1) + 1
    ELSE 0

\* [\s\S]*? and the end tag from offset j: the offset after the nearest end
\* tag, 0 without one
RECURSIVE NearestEnd(_, _, _)
NearestEnd(t, j, name) ==
  IF j > Len(t) THEN 0
  ELSE IF EnvTagEnd(t, j, L_end, name) # 0 THEN EnvTagEnd(t, j, L_end, name)
  ELSE NearestEnd(t, j + 1, name)

\* the end of the match of the pattern at offset i, 0 without a match
EnvMatchEnd(t, i, name) ==
  IF EnvTagEnd(t, i, L_begin, name) # 0
    THEN NearestEnd(t, EnvTagEnd(t, i, L_begin, name), name)
    ELSE 0

\* regex.sub(pattern, '', text) from offset i on
RECURSIVE RemoveEnvironment(_, _, _)
RemoveEnvironment(t, i, name) ==
  IF i > Len(t) THEN <<>>
  ELSE IF EnvMatchEnd(t, i, name) # 0
    THEN RemoveEnvironment(t, EnvMatchEnd(t, i, name), name)
  ELSE <<t[i]>> \o RemoveEnvironment(t, i + 1, name)

MaxEnvChunks == 4

EnvNames == {<<"c">>, <<"c", "*">>}

EnvChunks ==
  {<<Backslash, "b", "e", "g", "i", "n", "{", "c", "}">>,
   <<Backslash, "e", "n", "d", "{", "c", "}">>,
   <<Backslash, "b", "e", "g", "i", "n", "{", "c", "*", "}">>,
   <<Backslash, "e", "n", "d", "{", "c", "*", "}">>,
   <<Backslash, "b", "e", "g", "i", "n", "{", "}">>,
   <<Backslash, "e", "n", "d", "{", "}">>,
   <<Backslash, "b", "e", "g", "i", "n", "{", "d", "}">>,
   <<Backslash, "e", "n", "d", "{", "d", "}">>,
   <<"a">>, <<Newline>>}

EnvInit ==
  /\ pc = "env" /\ CondIdle /\ TexIdle /\ CmdIdle /\ RefIdle /\ ComIdle
  /\ PipeIdle
  /\ environment \in EnvNames
  /\ env_in \in {Flatten(cs) : cs \in SeqsUpTo(EnvChunks, MaxEnvChunks)}
  /\ env_out = <<>>

\* the call of _remove_environment
Remove_environment ==
  /\ pc = "env"
  /\ env_out' = RemoveEnvironment(env_in, 1, environment)
  /\ pc' = "env_done"
  /\ UNCHANGED <<environment, env_in, condVars, texVars, cmdVars, refVars,
                 comVars, pipeVars>>

EnvNext == Remove_environment

SpecEnv == EnvInit /\ [][EnvNext]_vars

\* the tag, the name and '}' stand at offset i as they are written
LiteralTag(t, i, tag, name) == LitAt(t, i, tag \o name \o <<"}">>)

\* the offset after the nearest \end{name} at or after j, 0 without one
RECURSIVE NextLiteralEnd(_, _, _)
NextLiteralEnd(t, j, name) ==
  IF j > Len(t) THEN 0
  ELSE IF LiteralTag(t, j, L_end, name) THEN j + Len(L_end) + Len(name) + 1
  ELSE NextLiteralEnd(t, j + 1, name)

\* the text without its spans from a \begin{name} to the next \end{name}
RECURSIVE WithoutSpans(_, _, _)
WithoutSpans(t, i, name) ==
  IF i > Len(t) THEN <<>>
  ELSE IF /\ LiteralTag(t, i, L_begin, name)
          /\ NextLiteralEnd(t, i + Len(L_begin) + Len(name) + 1, name) # 0
    THEN WithoutSpans(t, NextLiteralEnd(t, i + Len(L_begin) + Len(name) + 1, name),
                      name)
  ELSE <<t[i]>> \o WithoutSpans(t, i + 1, name)

\* C14: the result is the text without its non-overlapping spans from a
\* \begin{e} to the next \end{e}; everything outside them is unchanged.
C14_SpansDeleted ==
  pc = "env_done" => env_out = WithoutSpans(env_in, 1, environment)

-----------------------------------------------------------------------------
(* The conditionals of a well-formed text, read off the tokens by counting *)

\* the index of the \fi that balances the start token before index j, when
\* depth conditionals are open at j; 0 without one
RECURSIVE BalancingFi(_, _, _)
BalancingFi(ms, j, depth) ==
  IF j > Len(ms) THEN 0
  ELSE IF IsStart(ms[j]) THEN BalancingFi(ms, j + 1, depth + 1)
  ELSE IF ms[j].group = L_fi
    THEN (IF depth = 1 THEN j ELSE BalancingFi(ms, j + 1, depth - 1))
  ELSE BalancingFi(ms, j + 1, depth)

MatchingFi(ms, k) == BalancingFi(ms, k + 1, 1)

\* the tokens strictly between start token k and its \fi that belong to
\* conditional k itself: no other conditional between k and j is still open
OwnLevel(ms, k, j) ==
  /\ k < j /\ j < MatchingFi(ms, k)
  /\ \A i \in (k + 1)..(j - 1) :
       IsStart(ms[i]) => MatchingFi(ms, i) < j

\* the index of the \else of conditional k, 0 without one
ElseOf(ms, k) ==
  IF \E j \in 1..Len(ms) : ms[j].group = L_else /\ OwnLevel(ms, k, j)
    THEN CHOOSE j \in 1..Len(ms) : ms[j].group = L_else /\ OwnLevel(ms, k, j)
    ELSE 0

\* the start tokens of the conditionals that hold token j
Enclosing(ms, j) ==
  {k \in 1..(j - 1) : IsStart(ms[k]) /\ MatchingFi(ms, k) > j}

AmongUnknown(ms, k) ==
  \A i \in Enclosing(ms, k) : HandKind(ms[i]) = "unknown"

\* the offsets from the first character of token i to the last of token j
FromTo(ms, i, j) == ms[i].s..(ms[j].e - 1)

WellFormed == ByHand.ok

\* C15: in a well-formed text every character from the start token of a
\* false conditional without \else, nested in unknown conditionals only, to
\* the end of the \fi that balances it is deleted.
C15_FalseBlockDeleted ==
  (pc = "cond_done" /\ WellFormed) =>
    /\ outcome.kind = "simplified"
    /\ \A k \in 1..Len(matches) :
         (/\ IsStart(matches[k]) /\ HandKind(matches[k]) = "iffalse"
          /\ ElseOf(matches, k) = 0 /\ AmongUnknown(matches, k))
           => FromTo(matches, k, MatchingFi(matches, k)) \cap Range(kept) = {}

\* a false conditional without \else, inside an unknown conditional and with
\* a conditional inside it, so that its \fi is not the first one after it
C15_Witness ==
  /\ pc = "cond_done" /\ WellFormed
  /\ \E k \in 1..Len(matches) :
       /\ IsStart(matches[k]) /\ HandKind(matches[k]) = "iffalse"
       /\ ElseOf(matches, k) = 0
       /\ Enclosing(matches, k) # {} /\ AmongUnknown(matches, k)
       /\ MatchingFi(matches, k) > k + 2
       /\ FromTo(matches, k, MatchingFi(matches, k)) \cap Range(kept) = {}
       /\ kept # <<>>

\* the characters of the start, \else and \fi tokens of conditional k
OwnTokens(ms, k) ==
  FromTo(ms, k, k) \cup FromTo(ms, MatchingFi(ms, k), MatchingFi(ms, k))
  \cup (IF ElseOf(ms, k) = 0 THEN {} ELSE FromTo(ms, ElseOf(ms, k), ElseOf(ms, k)))

Resolved(tok) == HandKind(tok) \in {"iffalse", "iftrue"}

AllUnknown ==
  \A k \in 1..Len(matches) : IsStart(matches[k]) => ~Resolved(matches[k])

\* C16: in a well-formed text an unknown conditional nested in unknown
\* conditionals only keeps its start, \else and \fi tokens, and no token of
\* a resolved conditional nested in its branches is left; a text whose
\* conditionals are all unknown is returned unchanged.
C16_UnknownKeptInsideSimplified ==
  (pc = "cond_done" /\ WellFormed) =>
    /\ outcome.kind = "simplified"
    /\ \A k \in 1..Len(matches) :
         (/\ IsStart(matches[k]) /\ ~Resolved(matches[k])
          /\ AmongUnknown(matches, k))
           => /\ OwnTokens(matches, k) \subseteq Range(kept)
              /\ \A r \in 1..Len(matches) :
                   (/\ IsStart(matches[r]) /\ Resolved(matches[r])
                    /\ k \in Enclosing(matches, r))
                     => OwnTokens(matches, r) \cap Range(kept) = {}
    /\ AllUnknown => CondResult = text

\* conditional k stands in a branch that survives: each conditional around
\* it is unknown, or true with k in its then branch, or false with k in its
\* else branch
InKeptBranch(ms, k) ==
  \A i \in Enclosing(ms, k) :
    \/ HandKind(ms[i]) = "unknown"
    \/ HandKind(ms[i]) = "iftrue" /\ (ElseOf(ms, i) = 0 \/ k < ElseOf(ms, i))
    \/ HandKind(ms[i]) = "iffalse" /\ ElseOf(ms, i) # 0 /\ k > ElseOf(ms, i)

\* the characters strictly between token i and token j
Between(ms, i, j) == ms[i].e..(ms[j].s - 1)

Discarded(ms, k) ==
  IF HandKind(ms[k]) = "iffalse" THEN Between(ms, k, ElseOf(ms, k))
  ELSE Between(ms, ElseOf(ms, k), MatchingFi(ms, k))

Retained(ms, k) ==
  IF HandKind(ms[k]) = "iffalse" THEN Between(ms, ElseOf(ms, k), MatchingFi(ms, k))
  ELSE Between(ms, k, ElseOf(ms, k))

\* C20: in a well-formed text, of every resolved conditional with \else that
\* stands in a surviving branch the three tokens and the discarded branch
\* are deleted, the other branch is kept with the conditionals in it
\* resolved in turn (whitespace directly after deleted text aside), and no
\* span of positions_to_delete lies inside the discarded branch.
C20_ResolvedWithElse ==
  (pc = "cond_done" /\ WellFormed) =>
    /\ outcome.kind = "simplified"
    /\ \A k \in 1..Len(matches) :
         (/\ IsStart(matches[k]) /\ Resolved(matches[k])
          /\ ElseOf(matches, k) # 0 /\ InKeptBranch(matches, k))
           => /\ OwnTokens(matches, k) \cap Range(kept) = {}
              /\ Discarded(matches, k) \cap Range(kept) = {}
              /\ Retained(matches, k) \cap Range(kept) \subseteq ByHand.keep
              /\ (Retained(matches, k) \cap ByHand.keep)
                   \ AfterDeleted(ByHand.keep) \subseteq Range(kept)
              /\ \A i \in 1..Len(positions_to_delete) :
                   ~(/\ positions_to_delete[i].s \in Discarded(matches, k)
                     /\ positions_to_delete[i].e - 1 \in Discarded(matches, k))

-----------------------------------------------------------------------------
(* _simplify_conditional_blocks on texts with declarations, commands that
   begin like a token, constants written with a space, and exceptions *)

MaxTokChunks == 4

TokChunks ==
  {L_newif, L_if, L_ifvar, L_iffalse, L_else, L_fi,
   <<"f">>, <<"0">>, <<"1">>, <<" ">>}

\* no if_exceptions, or two of them, one a constant
TokExceptions == {{}, {Tail(L_ifvar), Tail(L_iffalse)}}

TokInit ==
  /\ pc = "cond" /\ TexIdle /\ CmdIdle /\ RefIdle /\ ComIdle
  /\ EnvIdle /\ PipeIdle
  /\ text \in {Flatten(cs) : cs \in SeqsUpTo(TokChunks, MaxTokChunks)}
  /\ matches = FindIter(text, 1)
  /\ m = 1
  /\ nodes = <<toplevel_tree>>
  /\ tree = 1
  /\ positions_to_delete = <<>>
  /\ kept = <<>>
  /\ outcome = [kind |-> "running", warning |-> ""]
  /\ if_exceptions \in TokExceptions

SpecTok == TokInit /\ [][CondNext]_vars

\* the offset of the last character at or before i that is not whitespace
RECURSIVE BackOverSpace(_, _)
BackOverSpace(t, i) ==
  IF i >= 1 /\ IsSpace(t[i]) THEN BackOverSpace(t, i - 1) ELSE i

\* the \if at offset i is the argument of a \newif declaration
Declared(t, i) ==
  LitAt(t, BackOverSpace(t, i - 1) - Len(L_newif) + 1, L_newif)

WordAt(t, i) == i <= Len(t) /\ IsWord(t[i])

\* a token starts at offset i
HandToken(t, i) ==
  \/ /\ LitAt(t, i, L_if) /\ ~Declared(t, i)
     /\ \E j \in (i + 3)..Len(t) :
          WordAt(t, j) /\ \A k \in (i + 3)..(j - 1) : IsSpace(t[k])
  \/ LitAt(t, i, L_else) /\ ~WordAt(t, i + 5)
  \/ LitAt(t, i, L_fi) /\ ~WordAt(t, i + 3)

\* C18: the tokens are exactly the \if<word> that are not the argument of a
\* \newif, the \else and the \fi that no word character follows; a text
\* without any of them is returned unchanged.
C18_TokensRecognised ==
  /\ pc \in {"cond", "cond_done"} =>
       {matches[k].s : k \in 1..Len(matches)}
         = {i \in 1..Len(text) : HandToken(text, i)}
  /\ (pc = "cond_done" /\ \A i \in 1..Len(text) : ~HandToken(text, i)) =>
       (outcome.kind = "simplified" /\ CondResult = text)

\* a text with a \newif declaration and a command that begins with \fi, and
\* nothing else that looks like a token, was returned unchanged
C18_Witness ==
  /\ pc = "cond_done"
  /\ \E i \in 1..Len(text) :
       LitAt(text, i, L_if) /\ Declared(text, i) /\ WordAt(text, i + 3)
  /\ \E i \in 1..Len(text) : LitAt(text, i, L_fi) /\ WordAt(text, i + 3)
  /\ matches = <<>>
  /\ CondResult = text

\* str.replace(' ', '') of a token text
HandNoSpace(g) == SelectSeq(g, LAMBDA c : c # " ")

\* the step opened a node of the given kind for token m under the current node
OpensNode(kind) ==
  /\ Len(nodes') = Len(nodes) + 1
  /\ nodes'[Len(nodes')].kind = kind
  /\ nodes'[Len(nodes')].start = m
  /\ nodes'[Len(nodes')].parent = tree
  /\ tree' = Len(nodes')

\* C19: a step over a start token whose text without spaces is \iffalse or
\* \if0 opens a false node, \iftrue or \if1 a true node; otherwise a name
\* of the exception list or of if_exceptions opens no node and leaves the
\* current node, and any other name opens an unknown node.
C19_Classification ==
  [][(pc = "cond" /\ m <= Len(matches)
      /\ SubSeq(matches[m].group, 1, 3) = L_if)
       => LET g == HandNoSpace(matches[m].group) IN
          IF g \in {L_iffalse, L_if0} THEN OpensNode("iffalse")
          ELSE IF g \in {L_iftrue, L_if1} THEN OpensNode("iftrue")
          ELSE IF Tail(g) \in exceptions \cup if_exceptions
            THEN nodes' = nodes /\ tree' = tree
          ELSE OpensNode("unknown")]_vars

\* a constant named in if_exceptions opened a false node, and a token of an
\* exception was passed without a node
C19_Witness ==
  /\ pc = "cond" /\ m > Len(matches)
  /\ \E k \in 1..Len(matches) :
       /\ matches[k].group = L_iffalse
       /\ Tail(L_iffalse) \in if_exceptions
       /\ \E n \in 1..Len(nodes) : nodes[n].start = k /\ nodes[n].kind = "iffalse"
  /\ \E k \in 1..Len(matches) :
       /\ SubSeq(matches[k].group, 1, 3) = L_if
       /\ Tail(HandNoSpace(matches[k].group)) \in exceptions \cup if_exceptions
       /\ \A n \in 1..Len(nodes) : nodes[n].start # k

-----------------------------------------------------------------------------
(* _remove_comments_and_commands_to_delete *)

L_comment == <<"c", "o", "m", "m", "e", "n", "t">>

\* _remove_command(text, command, keep_text): the loop `while True`
RECURSIVE RemoveCommand(_, _, _)
RemoveCommand(t, cmd, keep) ==
  LET subs == Substitutions(t, cmd, keep)
      after == ApplySubstitutions(t, subs)
  IN IF ~keep \/ subs = <<>> THEN after ELSE RemoveCommand(after, cmd, keep)

\* for command in cmds: content = _remove_command(content, command, keep)
RECURSIVE RemoveCommands(_, _, _)
RemoveCommands(t, cmds, keep) ==
  IF cmds = <<>> THEN t
  ELSE RemoveCommands(RemoveCommand(t, Head(cmds), keep), Tail(cmds), keep)

\* for environment in envs: content = _remove_environment(content, environment)
RECURSIVE RemoveEnvironments(_, _)
RemoveEnvironments(t, envs) ==
  IF envs = <<>> THEN t
  ELSE RemoveEnvironments(RemoveEnvironment(t, 1, Head(envs)), Tail(envs))

\* the lines of a text as a file gives them, each with its newline
RECURSIVE LinesOf(_, _)
LinesOf(t, cur) ==
  IF t = <<>> THEN (IF cur = <<>> THEN <<>> ELSE <<cur>>)
  ELSE IF Head(t) = Newline THEN <<Append(cur, Newline)>> \o LinesOf(Tail(t), <<>>)
  ELSE LinesOf(Tail(t), Append(cur, Head(t)))

MaxPipeChunks == 3

\* the lists a parameter is given: empty, or the one command
PipeLists == {<<>>, <<TheCommand>>}

PipeInit ==
  /\ pc = "pipe" /\ CondIdle /\ TexIdle /\ CmdIdle /\ RefIdle /\ ComIdle
  /\ EnvIdle
  /\ parameters \in [environments_to_delete : PipeLists,
                     commands_only_to_delete : PipeLists,
                     commands_to_delete : PipeLists,
                     if_exceptions : {<<>>}]
  /\ pipe_in \in {LinesOf(Flatten(cs), <<>>) :
                    cs \in SeqsUpTo(CmdChunks, MaxPipeChunks)}
  /\ content = pipe_in

\* content = [_remove_comments_inline(line) for line in content]
StripComments ==
  /\ pc = "pipe"
  /\ content' = [k \in 1..Len(content) |-> RemoveCommentsInline(content[k])]
  /\ pc' = "pipe_comment_env"
  /\ UNCHANGED <<parameters, pipe_in, condVars, texVars, cmdVars, refVars,
                 comVars, envVars>>

\* content = _remove_environment(''.join(content), 'comment')
RemoveCommentEnvironment ==
  /\ pc = "pipe_comment_env"
  /\ content' = RemoveEnvironment(Flatten(content), 1, L_comment)
  /\ pc' = "pipe_cond"
  /\ UNCHANGED <<parameters, pipe_in, condVars, texVars, cmdVars, refVars,
                 comVars, envVars>>

\* content = _simplify_conditional_blocks(content, if_exceptions) for a
\* content without a token of the pattern p: the loop body never runs, no
\* position is deleted and the text is returned as it is
SimplifyConditionals ==
  /\ pc = "pipe_cond"
  /\ FindIter(content, 1) = <<>>
  /\ content' = content
  /\ pc' = "pipe_envs"
  /\ UNCHANGED <<parameters, pipe_in, condVars, texVars, cmdVars, refVars,
                 comVars, envVars>>

\* the loop over environments_to_delete
RemoveEnvironmentsToDelete ==
  /\ pc = "pipe_envs"
  /\ content' = RemoveEnvironments(content, parameters.environments_to_delete)
  /\ pc' = "pipe_keep"
  /\ UNCHANGED <<parameters, pipe_in, condVars, texVars, cmdVars, refVars,
                 comVars, envVars>>

\* the loop over commands_only_to_delete, with keep_text = True
RemoveCommandsOnly ==
  /\ pc = "pipe_keep"
  /\ content' = RemoveCommands(content, parameters.commands_only_to_delete, TRUE)
  /\ pc' = "pipe_delete"
  /\ UNCHANGED <<parameters, pipe_in, condVars, texVars, cmdVars, refVars,
                 comVars, envVars>>

\* the loop over commands_to_delete, with keep_text = False
RemoveCommandsToDelete ==
  /\ pc = "pipe_delete"
  /\ content' = RemoveCommands(content, parameters.commands_to_delete, FALSE)
  /\ pc' = "pipe_done"
  /\ UNCHANGED <<parameters, pipe_in, condVars, texVars, cmdVars, refVars,
                 comVars, envVars>>

PipeNext ==
  \/ StripComments
  \/ RemoveCommentEnvironment
  \/ SimplifyConditionals
  \/ RemoveEnvironmentsToDelete
  \/ RemoveCommandsOnly
  \/ RemoveCommandsToDelete

SpecPipe == PipeInit /\ [][PipeNext]_vars

\* the command is listed in both parameters
BothListed ==
  /\ parameters.commands_only_to_delete = <<TheCommand>>
  /\ parameters.commands_to_delete = <<TheCommand>>

\* C17: with the command in both lists, the retaining pass comes first and
\* leaves the text with every invocation replaced by the text it wraps, and
\* the deleting pass that follows finds no invocation and changes nothing.
C17_RetainedBeforeDeleted ==
  [][/\ (BothListed /\ pc = "pipe_keep") =>
          (pc' = "pipe_delete" /\ content' = Unwrap(content, TheCommand))
     /\ (BothListed /\ pc = "pipe_delete") =>
          (FindAll(content, TheCommand, 1) = <<>> /\ content' = content)]_vars

-----------------------------------------------------------------------------
(* A true conditional without \else *)

\* C21: in a well-formed text, of every true conditional without \else that
\* stands in a surviving branch the start token and the \fi are deleted, and
\* the body between them survives: each of its characters that resolving the
\* text by hand keeps is in the result (whitespace directly after deleted
\* text aside).
C21_TrueBlockUnwrapped ==
  (pc = "cond_done" /\ WellFormed) =>
    /\ outcome.kind = "simplified"
    /\ \A k \in 1..Len(matches) :
         (/\ IsStart(matches[k]) /\ HandKind(matches[k]) = "iftrue"
          /\ ElseOf(matches, k) = 0 /\ InKeptBranch(matches, k))
           => /\ OwnTokens(matches, k) \cap Range(kept) = {}
              /\ (Between(matches, k, MatchingFi(matches, k)) \cap ByHand.keep)
                   \ AfterDeleted(ByHand.keep) \subseteq Range(kept)

-----------------------------------------------------------------------------
(* The deletion of the spans *)

\* the characters of the spans of positions_to_delete
SpanChars ==
  UNION {positions_to_delete[i].s..(positions_to_delete[i].e - 1) :
           i \in 1..Len(positions_to_delete)}

\* the whitespace characters of the text that directly follow a span
TrailingSpace ==
  {q \in 1..Len(text) :
     /\ IsSpace(text[q])
     /\ \E i \in 1..Len(positions_to_delete) : positions_to_delete[i].e = q}

\* C22: the characters removed from the text are exactly those of the spans
\* and, for each span, the one character that directly follows it in the
\* original text when that character is whitespace.
C22_OneTrailingWhitespace ==
  (pc = "cond_done" /\ outcome.kind = "simplified") =>
    Range(kept) = (1..Len(text)) \ (SpanChars \cup TrailingSpace)

-----------------------------------------------------------------------------
(* _keep_only_referenced_tex: the passes of the loop *)

\* the bodies of a reference graph: no reference, or one reference
TexGraphBodies ==
  {<< <<>> >>} \cup {<<RefLine(f)>> : f \in NestedFiles}

TexLiveInit ==
  /\ pc = "tex" /\ CondIdle /\ CmdIdle /\ RefIdle /\ ComIdle
  /\ EnvIdle /\ PipeIdle
  /\ contents \in [{RootFile} \cup NestedFiles -> TexGraphBodies]
  /\ splits = [tex_in_root |-> {RootFile}, tex_not_in_root |-> NestedFiles,
               tex_to_copy |-> {}]
  /\ old_referenced = splits.tex_in_root \cup splits.tex_not_in_root
  /\ referenced = {}

\* the loop runs on: a pass that can be taken is taken
SpecTexLive == TexLiveInit /\ [][TexNext]_vars /\ WF_vars(TexNext)

\* C23: the loop ends: after finitely many passes a pass computes the set
\* that the pass before it computed.
C23_Terminates ==
  <>(pc = "tex_done" /\ referenced = old_referenced)

\* a call that ended after three passes or more: A, that no file references,
\* went in one pass and B, that A alone references, in a later one
C23_Witness ==
  /\ pc = "tex_done"
  /\ \E A, B \in splits.tex_not_in_root :
       /\ A # B
       /\ References(A, B)
       /\ \A f \in AllTex : ~References(f, A)
       /\ \A f \in AllTex \ {A} : ~References(f, B)
       /\ A \notin splits.tex_to_copy /\ B \notin splits.tex_to_copy

\* C24: the set the first pass reads is tex_in_root, and the set a pass
\* computes holds every file of the set it read.
C24_StartsAtRootsAndGrows ==
  [][pc = "tex" =>
       /\ (referenced = {} => old_referenced = splits.tex_in_root)
       /\ old_referenced \subseteq referenced']_vars

\* what the set stored in splits['tex_to_copy'] satisfies when the call ends
CopiedSetClosed ==
  pc = "tex_done" =>
    /\ splits.tex_to_copy \subseteq splits.tex_in_root \cup splits.tex_not_in_root
    /\ splits.tex_in_root \subseteq splits.tex_to_copy
    /\ \A fn \in splits.tex_to_copy \ splits.tex_in_root :
         \E fn2 \in splits.tex_to_copy : References(fn2, fn)

\* C30: tex_to_copy is a subset of the TeX files, it holds every root,
\* referenced or not, each of its other files is referenced by the body of a
\* file of it, and no step of the call changes the content mapping.
C30_CopiedSet ==
  [][contents' = contents /\ CopiedSetClosed']_vars

\* the root, that no file references, is copied with the file it names,
\* while B, that only the dropped file A references, is not
C30_Witness ==
  /\ pc = "tex_done"
  /\ \A f \in AllTex : ~References(f, RootFile)
  /\ \E A, B, C \in splits.tex_not_in_root :
       /\ A # B /\ A # C /\ B # C
       /\ References(RootFile, C)
       /\ References(A, B)
       /\ \A f \in AllTex : ~References(f, A)
       /\ \A f \in AllTex \ {A} : ~References(f, B)
       /\ splits.tex_to_copy \cap {RootFile, A, B, C} = {RootFile, C}

-----------------------------------------------------------------------------
(* _remove_command: what a pass leaves alone *)

\* how far the substitutions that end at or before offset i move it left
RECURSIVE Shift(_, _)
Shift(subs, i) ==
  IF subs = <<>> THEN 0
  ELSE (IF Head(subs).end <= i
          THEN Head(subs).end - Head(subs).start - Len(Head(subs).new)
          ELSE 0)
       + Shift(Tail(subs), i)

InsideSubstitution(subs, i) ==
  \E k \in 1..Len(subs) : subs[k].start <= i /\ i < subs[k].end

\* the offset of the first substitution after offset i, or of the text's end
RECURSIVE NextStart(_, _, _)
NextStart(subs, i, n) ==
  IF subs = <<>> THEN n + 1
  ELSE IF Head(subs).start > i THEN Head(subs).start
  ELSE NextStart(Tail(subs), i, n)

\* the text of the last pass from offset i to the next substitution stands
\* in the result, moved left by what the substitutions before it took
Untouched(i) ==
  LitAt(cmd_text, i - Shift(all_substitutions, i),
        Slice(cmd_prev, i, NextStart(all_substitutions, i, Len(cmd_prev))))

\* at offset i stands a command whose name is cmd and then more
PrefixAt(t, cmd, i) ==
  /\ LitAt(t, i, <<Backslash>> \o cmd)
  /\ i + 1 + Len(cmd) <= Len(t)
  /\ IsWord(t[i + 1 + Len(cmd)])

\* C25: no substitution of a pass starts at a command whose name only begins
\* with the command name, and such a command that stands outside every
\* substitution is in the result with the text that follows it, keep_text
\* or not.
C25_PrefixNamesUntouched ==
  pc \in {"cmd", "cmd_done"} =>
    \A i \in 1..Len(cmd_prev) :
      PrefixAt(cmd_prev, command, i) =>
        /\ \A k \in 1..Len(all_substitutions) : all_substitutions[k].start # i
        /\ ~InsideSubstitution(all_substitutions, i) => Untouched(i)

\* a pass that took an invocation before and one inside the argument of a
\* command whose name begins with the command name, and left that command
C25_Witness ==
  /\ pc \in {"cmd", "cmd_done"}
  /\ \E i \in 1..Len(cmd_prev) :
       /\ PrefixAt(cmd_prev, command, i)
       /\ ~InsideSubstitution(all_substitutions, i)
       /\ Shift(all_substitutions, i) > 0
       /\ \E k \in 1..Len(all_substitutions) :
            /\ all_substitutions[k].start > i
            /\ all_substitutions[k].end < CloseOf(cmd_prev, WordRunEnd(cmd_prev, i + 1)) + 1
       /\ Untouched(i)

\* the opening braces less the closing braces of t from offset a to offset q
RECURSIVE Depth(_, _, _)
Depth(t, a, q) ==
  IF q < a THEN 0
  ELSE Depth(t, a, q - 1)
       + (IF t[q] = "{" THEN 1 ELSE IF t[q] = "}" THEN -1 ELSE 0)

\* the brace at offset a is closed before the text ends
Closed(t, a) == \E q \in (a + 1)..Len(t) : Depth(t, a, q) = 0

\* the braces that can open the argument of the command at offset i: the
\* brace directly after the name, or after bracketed options on one line
HandOpens(t, cmd, i) ==
  {a \in (i + 1 + Len(cmd))..Len(t) :
     /\ t[a] = "{"
     /\ LET between == Slice(t, i + 1 + Len(cmd), a)
        IN \/ between = <<>>
           \/ /\ Len(between) >= 2
              /\ between[1] = "[" /\ between[Len(between)] = "]"
              /\ \A k \in 1..Len(between) : between[k] # Newline}

UnbalancedAt(t, cmd, i) ==
  /\ LitAt(t, i, <<Backslash>> \o cmd)
  /\ HandOpens(t, cmd, i) # {}
  /\ \A a \in HandOpens(t, cmd, i) : ~Closed(t, a)

BalancedAt(t, cmd, i) ==
  /\ LitAt(t, i, <<Backslash>> \o cmd)
  /\ \E a \in HandOpens(t, cmd, i) : Closed(t, a)

\* a pass of the loop has run: cmd_prev is the text it searched
PassRan == pc = "cmd_done" \/ all_substitutions # <<>>

\* C26: of a text that a pass has searched, an occurrence of the command
\* whose opening brace is never closed starts no substitution and lies in
\* none, and stands in the result with the text up to the next substitution;
\* and when there is such an occurrence, every occurrence with a closed
\* brace still starts a substitution or lies inside one.
C26_UnbalancedIsNoMatch ==
  PassRan =>
    /\ \A i \in 1..Len(cmd_prev) :
         UnbalancedAt(cmd_prev, command, i) =>
           /\ ~InsideSubstitution(all_substitutions, i)
           /\ Untouched(i)
    /\ (\E i \in 1..Len(cmd_prev) : UnbalancedAt(cmd_prev, command, i)) =>
         \A j \in 1..Len(cmd_prev) :
           BalancedAt(cmd_prev, command, j) =>
             InsideSubstitution(all_substitutions, j)

-----------------------------------------------------------------------------
(* _remove_command with keep_text=True: the passes of the loop *)

\* C29: with keep_text a pass that finds a match returns a strictly shorter
\* text and the loop goes on, and a pass that finds none ends the loop with
\* the text as it was; the length of the text bounds the number of passes.
C29_KeepTextTerminates ==
  [][(pc = "cmd" /\ keep_text) =>
       IF all_substitutions' # <<>>
         THEN Len(cmd_text') < Len(cmd_text) /\ pc' = "cmd"
         ELSE cmd_text' = cmd_text /\ pc' = "cmd_done"]_vars

\* a call that ended after three passes or more: the text of the first pass
\* still held an invocation
C29_Witness ==
  /\ pc = "cmd_done" /\ keep_text
  /\ FindAll(ApplySubstitutions(cmd_in, Substitutions(cmd_in, command, TRUE)),
             command, 1) # <<>>
  /\ Len(cmd_text) < Len(cmd_in)

-----------------------------------------------------------------------------
(* _simplify_conditional_blocks: the shape of the tree during the scan *)

NodeIds == 1..Len(nodes)

\* the offset in the text of token k
Pos(k) == matches[k].s

\* how often node n stands in the left and right lists of the tree
Occurrences(n) ==
  Cardinality({qk \in NodeIds \X NodeIds :
                 /\ qk[2] <= Len(nodes[qk[1]].left)
                 /\ nodes[qk[1]].left[qk[2]] = n})
  + Cardinality({qk \in NodeIds \X NodeIds :
                   /\ qk[2] <= Len(nodes[qk[1]].right)
                   /\ nodes[qk[1]].right[qk[2]] = n})

\* node n has its start token and not yet its end token
IsOpen(n) == nodes[n].start # 0 /\ nodes[n].end = 0

\* the start tokens of the nodes of a list stand in source order, and each
\* node but the last has its end token before the next one starts
InOrder(ids) ==
  \A i \in 1..(Len(ids) - 1) :
    /\ nodes[ids[i]].end # 0
    /\ Pos(nodes[ids[i]].end) < Pos(nodes[ids[i + 1]].start)

TreeWellFormed ==
  /\ tree \in NodeIds
  /\ tree = 1 \/ IsOpen(tree)
  /\ nodes[1].parent = 0 /\ nodes[1].start = 0 /\ Occurrences(1) = 0
  /\ \A n \in NodeIds :
       /\ InOrder(nodes[n].left) /\ InOrder(nodes[n].right)
       /\ nodes[n].else # 0 => Pos(nodes[n].start) < Pos(nodes[n].else)
       /\ nodes[n].end # 0 =>
            /\ Pos(nodes[n].start) < Pos(nodes[n].end)
            /\ nodes[n].else # 0 => Pos(nodes[n].else) < Pos(nodes[n].end)
  /\ \A n \in NodeIds \ {1} :
       LET p == nodes[n].parent IN
       /\ p \in NodeIds /\ p # n
       /\ nodes[n].start # 0
       /\ Occurrences(n) = 1
       /\ n \in Range(nodes[p].left) \cup Range(nodes[p].right)
       /\ n \in Range(nodes[p].left) <=>
            (nodes[p].else = 0 \/ Pos(nodes[n].start) < Pos(nodes[p].else))
       /\ p # 1 => Pos(nodes[p].start) < Pos(nodes[n].start)
       /\ nodes[p].end # 0 =>
            nodes[n].end # 0 /\ Pos(nodes[n].end) < Pos(nodes[p].end)
       /\ (nodes[p].else # 0 /\ n \in Range(nodes[p].left)) =>
            nodes[n].end # 0 /\ Pos(nodes[n].end) < Pos(nodes[p].else)

\* a node that has its end token stays as it is and is not the current node
ClosedStays ==
  \A n \in NodeIds :
    nodes[n].end # 0 => (nodes'[n] = nodes[n] /\ tree' # n)

\* C27: before and after every step of the scan the tree is well formed:
\* the current node is the root or a node with a start token and no end
\* token; every other node stands once in the tree, in the then list of
\* its parent if the parent had no \else when it was opened and in the else
\* list otherwise; start, \else and end tokens and the children of a node
\* stand in strictly increasing source order; and a node with its end token
\* is not changed and is not the current node again.
C27_TreeWellFormed ==
  [][TreeWellFormed /\ TreeWellFormed' /\ ClosedStays]_vars

\* the scan stands in the second level of the tree, in the else list of a
\* node whose then list holds a closed node
C27_Witness ==
  /\ pc = "cond" /\ tree # 1
  /\ LET p == nodes[tree].parent IN
     /\ p # 1
     /\ nodes[p].else # 0
     /\ tree \in Range(nodes[p].right)
     /\ \E c \in Range(nodes[p].left) : nodes[c].end # 0

-----------------------------------------------------------------------------
(* The spans traverse_tree collects *)

\* the end of span i with the whitespace character that follows it in the
\* text
ExtendedEnd(i) ==
  LET e == positions_to_delete[i].e
  IN IF e <= Len(text) /\ IsSpace(text[e]) THEN e + 1 ELSE e

\* C28: for a well-formed text the spans of positions_to_delete are not
\* empty, stand in strictly increasing order and do not overlap, also when
\* a span is extended by the whitespace character behind it; and the result
\* holds, in the order of the text, no character of a span and every other
\* character but whitespace.
C28_SpansDisjointIncreasing ==
  (pc = "cond_done" /\ outcome.kind = "simplified") =>
    /\ \A i \in 1..Len(positions_to_delete) :
         /\ 1 <= positions_to_delete[i].s
         /\ positions_to_delete[i].s < positions_to_delete[i].e
         /\ positions_to_delete[i].e <= Len(text) + 1
    /\ \A i, j \in 1..Len(positions_to_delete) :
         i < j =>
           /\ positions_to_delete[i].s < positions_to_delete[j].s
           /\ positions_to_delete[i].e <= positions_to_delete[j].s
           /\ ExtendedEnd(i) <= positions_to_delete[j].s
    /\ Increasing(kept)
    /\ SpanChars \cap Range(kept) = {}
    /\ \A q \in (1..Len(text)) \ (SpanChars \cup Range(kept)) : IsSpace(text[q])

\* three spans or more, two of them adjacent and one with a whitespace
\* character between it and the next
C28_Witness ==
  /\ pc = "cond_done" /\ outcome.kind = "simplified"
  /\ Len(positions_to_delete) >= 3
  /\ \E i \in 1..(Len(positions_to_delete) - 1) :
       positions_to_delete[i].e = positions_to_delete[i + 1].s
  /\ \E i \in 1..(Len(positions_to_delete) - 1) :
       /\ ExtendedEnd(i) = positions_to_delete[i + 1].s
       /\ ExtendedEnd(i) # positions_to_delete[i].e

====
